---- MODULE Spec2Model ----
(***************************************************************************)
(* Model of the news aggregation pipeline of iran_news_app.py:             *)
(*   fetch_news               (aggregator: dispatch, dedup by url, cut)     *)
(*   parse_to_tehran_time     (timestamp parsing, fixed +3h30 shift)        *)
(*   filter_articles_by_time  (relative window / explicit range)            *)
(*   translate_with_avalai    (one chat-completion request per text)        *)
(*   pre_process_articles     (sort newest first, translate the first N)    *)
(*                                                                         *)
(* Each function is a pure operator written statement by statement from    *)
(* the source; a try/except of the source is an operator that returns      *)
(* [exc |-> TRUE] from its body and a wrapper that turns it into the value *)
(* of the handler.  A specification draws the arguments of one call in its *)
(* initial state (pc = "call") and its action runs the function            *)
(* (pc = "return").                                                         *)
(***************************************************************************)
EXTENDS Integers, Sequences, FiniteSets, TLC

VARIABLES pc,            \* "call": arguments drawn; "return": function ran
          call,          \* the function called and its arguments
          ret,           \* [raised, value]: what the call gave its caller
          translate_calls, \* the calls of translate_with_avalai, in order
          session_state, \* st.session_state: items, selected_items, chat_ids
          temp_file,     \* the file at TEMP_FILE
          chat_ids_file, \* the file at CHAT_IDS_FILE
          requests       \* the HTTP requests made, in order

vars == <<pc, call, ret, translate_calls, session_state, temp_file, chat_ids_file, requests>>

\* the part of the state the pipeline functions neither read nor write
outside == <<session_state, temp_file, chat_ids_file, requests>>

\* a file that does not exist
Absent == [state |-> "absent", text |-> <<>>]

\* a dict without keys
EmptyDict == [k \in {} |-> 0]

\* a process that has not started a session and has written no file
NoSession ==
    /\ session_state = [items |-> <<>>, selected_items |-> <<>>, chat_ids |-> EmptyDict]
    /\ temp_file = Absent
    /\ chat_ids_file = Absent
    /\ requests = <<>>

----------------------------------------------------------------------------
(* Bounds of the model *)

MaxItems == 3        \* longest item list an adapter returns / a call gets
MaxRecords == 3      \* largest max_records (the slider goes from 1)
MaxTranslate == 2    \* largest num_items_to_translate (slider from 1)

----------------------------------------------------------------------------
(* Sequences *)

Min(a, b) == IF a <= b THEN a ELSE b

\* Python's seq[:n] for n >= 0
Slice(seq, n) == SubSeq(seq, 1, Min(n, Len(seq)))

SeqsUpTo(S, n) == UNION {[1..k -> S] : k \in 0..n}

NonEmptySeqsUpTo(S, n) == UNION {[1..k -> S] : k \in 1..n}

----------------------------------------------------------------------------
(* Texts.  A title or description is a string; the chat-completion         *)
(* endpoint answers a translation request for text t with Fa(t).           *)

NoText == ""

Fa(text) ==
    CASE text = "T1" -> "fa:T1"
      [] text = "T2" -> "fa:T2"
      [] text = "D1" -> "fa:D1"
      [] text = "D2" -> "fa:D2"
      [] OTHER -> "fa:?"

----------------------------------------------------------------------------
(* fetch_news *)

\* the keys of api_functions, and the one that yields reports
NewsApis == {"GNews", "World News API", "CoinGecko (Crypto News)", "CurrentsAPI"}
ReportApi == "Financial Report (FMP)"
ApiFunctions == NewsApis \cup {ReportApi}

\* A vendor record may carry a JSON array or object in "url"; the adapters
\* copy it with a.get("url", ""), and such a value cannot be put in a set.
UnhashableUrl == "<json array>"
Hashable(url) == url # UnhashableUrl

\* for item in all_items: if item["url"] not in seen_urls: ...
RECURSIVE UniqueItemsLoop(_, _, _)
UniqueItemsLoop(all_items, seen_urls, unique_items) ==
    IF all_items = <<>> THEN [exc |-> FALSE, value |-> unique_items]
    ELSE LET item == Head(all_items) IN
         IF ~Hashable(item.url)
         THEN [exc |-> TRUE, value |-> <<>>]          \* TypeError
         ELSE IF item.url \notin seen_urls
              THEN UniqueItemsLoop(Tail(all_items), seen_urls \cup {item.url},
                                   Append(unique_items, item))
              ELSE UniqueItemsLoop(Tail(all_items), seen_urls, unique_items)

\* faulty variant: the later occurrence of a url replaces the earlier one
RECURSIVE UniqueItemsKeepLast(_)
UniqueItemsKeepLast(all_items) ==
    IF all_items = <<>> THEN [exc |-> FALSE, value |-> <<>>]
    ELSE LET item == Head(all_items)
             rest == UniqueItemsKeepLast(Tail(all_items))
         IN IF ~Hashable(item.url) \/ rest.exc
            THEN [exc |-> TRUE, value |-> <<>>]
            ELSE IF \E j \in 1..Len(rest.value) : rest.value[j].url = item.url
                 THEN rest
                 ELSE [exc |-> FALSE, value |-> <<item>> \o rest.value]

UniqueItems(all_items) == UniqueItemsLoop(all_items, {}, <<>>)

\* faulty variant: the list is cut to max_records before it is deduplicated
MergeCutFirst(selected_api, all_items, max_records) ==
    IF selected_api # ReportApi
    THEN UniqueItems(Slice(all_items, max_records))
    ELSE [exc |-> FALSE, value |-> Slice(all_items, max_records)]

\* the merge step: dedup then cut for news, cut only for reports
Merge(selected_api, all_items, max_records) ==
    IF selected_api # ReportApi
    THEN LET unique == UniqueItems(all_items)
         IN IF unique.exc THEN unique
            ELSE [exc |-> FALSE, value |-> Slice(unique.value, max_records)]
    ELSE [exc |-> FALSE, value |-> Slice(all_items, max_records)]

\* The body of the try block.  result is what the adapter gave:
\*   kind "raise"     the adapter call raised
\*   kind "not_tuple" it returned something that is not a 2-tuple
\*   kind "not_list"  it returned (x, error) with x not a list
\*   kind "pair"      it returned (items, error)
FetchNewsBody(selected_api, result, max_records) ==
    IF selected_api \notin ApiFunctions THEN [exc |-> FALSE, value |-> <<>>]
    ELSE IF result.kind = "raise" THEN [exc |-> TRUE, value |-> <<>>]
    ELSE IF result.kind = "not_tuple" THEN [exc |-> FALSE, value |-> <<>>]
    ELSE IF result.kind = "not_list" THEN [exc |-> FALSE, value |-> <<>>]
    ELSE Merge(selected_api, result.items, max_records)

\* faulty variant: no blanket handler, an exception of the body reaches the caller
FetchNewsNoHandler(selected_api, result, max_records) ==
    LET body == FetchNewsBody(selected_api, result, max_records)
    IN [raised |-> body.exc, value |-> body.value]

\* try: ... except Exception: return []
FetchNews(selected_api, result, max_records) ==
    LET body == FetchNewsBody(selected_api, result, max_records)
    IN IF body.exc THEN [raised |-> FALSE, value |-> <<>>]
       ELSE [raised |-> FALSE, value |-> body.value]

----------------------------------------------------------------------------
(* Inputs of the fetch_news specification *)

FetchUrls == {"u1", "u2", UnhashableUrl}
FetchTitles == {"T1", "T2"}

\* the fields of a news item that fetch_news can tell apart
FetchNewsItems ==
    {[type |-> "news", url |-> u, title |-> t] : u \in FetchUrls, t \in FetchTitles}

ReportItems ==
    {[type |-> "report", symbol |-> "AAPL", date |-> d] : d \in {"2025-03-31", "2024-12-31"}}

AdapterResults(selected_api) ==
    {[kind |-> k, items |-> <<>>] : k \in {"raise", "not_tuple", "not_list"}}
    \cup {[kind |-> "pair", items |-> s] :
            s \in SeqsUpTo(IF selected_api = ReportApi THEN ReportItems
                           ELSE FetchNewsItems, MaxItems)}

InitFetch ==
    /\ pc = "call"
    /\ \E api \in ApiFunctions \cup {"Unknown API"} :
       \E result \in AdapterResults(api) :
       \E m \in 1..MaxRecords :
          call = [fn |-> "fetch_news", selected_api |-> api,
                  result |-> result, max_records |-> m]
    /\ ret = [raised |-> FALSE, value |-> <<>>]
    /\ translate_calls = <<>>
    /\ NoSession

FetchNewsCall ==
    /\ pc = "call"
    /\ call.fn = "fetch_news"
    /\ ret' = FetchNews(call.selected_api, call.result, call.max_records)
    /\ pc' = "return"
    /\ UNCHANGED <<call, translate_calls>>
    /\ UNCHANGED outside

SpecFetch == InitFetch /\ [][FetchNewsCall]_vars

----------------------------------------------------------------------------
(* Time.  A datetime is [aware, s, us, off]: wall-clock seconds s since    *)
(* 00:00 of day 0 of the model's calendar, microseconds us, and for an     *)
(* aware datetime its utc offset off in seconds (0 for a naive one).       *)

SecondsPerHour == 3600
SecondsPerDay == 86400

\* timedelta(hours=3, minutes=30)
TehranOffset == 12600

Naive(s, us) == [aware |-> FALSE, s |-> s, us |-> us, off |-> 0]

\* datetime.min
DatetimeMin == Naive(-1000000000, 0)

\* dt + timedelta(seconds=d)
AddSeconds(dt, d) == [dt EXCEPT !.s = @ + d]

\* datetime.combine(date, datetime.min.time()), date a day number
CombineMin(date) == Naive(date * SecondsPerDay, 0)

\* datetime.combine(date, datetime.max.time()): 23:59:59.999999
CombineMax(date) == Naive(date * SecondsPerDay + (SecondsPerDay - 1), 999999)

\* a <= b and a >= b raise TypeError for one aware and one naive operand
CompareRaises(a, b) == a.aware # b.aware

\* a <= b for two naive datetimes (wall clock) or two aware ones (instant)
LessEq(a, b) ==
    \/ a.s - a.off < b.s - b.off
    \/ (a.s - a.off = b.s - b.off /\ a.us <= b.us)

----------------------------------------------------------------------------
(* parse_to_tehran_time.  A published_at string is [text, fmt, s, us, off]: *)
(* "" is the empty string, "not a date" a string no format matches, and    *)
(* "stamp" a timestamp written in format fmt with the wall clock s, us and *)
(* (for a format with an offset) the offset off.                           *)

TimeFormats ==
    << "%Y-%m-%dT%H:%M:%SZ",
       "%Y-%m-%d %H:%M:%S",
       "%Y-%m-%dT%H:%M:%S",
       "%Y-%m-%dT%H:%M:%S.%fZ",
       "%Y-%m-%d %H:%M:%S.%f",
       "%Y-%m-%dT%H:%M:%S%z",
       "%Y-%m-%dT%H:%M:%S.%f%z",
       "%Y-%m-%d" >>

\* the formats that read a utc offset and so give an aware datetime
OffsetFormats == {"%Y-%m-%dT%H:%M:%S%z", "%Y-%m-%dT%H:%M:%S.%f%z"}

EmptyString == [text |-> "", fmt |-> "", s |-> 0, us |-> 0, off |-> 0]
NotADate == [text |-> "not a date", fmt |-> "", s |-> 0, us |-> 0, off |-> 0]
Stamp(fmt, s, us, off) == [text |-> "stamp", fmt |-> fmt, s |-> s, us |-> us, off |-> off]

\* datetime.strptime(str, format) does not raise ValueError.  %z also reads
\* a literal Z (as offset 0), so a Z-suffixed string matches two formats.
Matches(str, format) ==
    /\ str.text = "stamp"
    /\ \/ str.fmt = format
       \/ (str.fmt = "%Y-%m-%dT%H:%M:%SZ" /\ format = "%Y-%m-%dT%H:%M:%S%z")
       \/ (str.fmt = "%Y-%m-%dT%H:%M:%S.%fZ" /\ format = "%Y-%m-%dT%H:%M:%S.%f%z")

\* datetime.strptime(str, format) for a matching format
Strptime(str, format) ==
    IF format \in OffsetFormats
    THEN [aware |-> TRUE, s |-> str.s, us |-> str.us,
          off |-> IF str.fmt \in OffsetFormats THEN str.off ELSE 0]
    ELSE Naive(str.s, str.us)

\* None, and a datetime as a value that may be None
None == [some |-> FALSE, aware |-> FALSE, s |-> 0, us |-> 0, off |-> 0]
Some(dt) == [some |-> TRUE, aware |-> dt.aware, s |-> dt.s, us |-> dt.us, off |-> dt.off]

\* for time_format in time_formats: try strptime, on ValueError continue
RECURSIVE TryFormats(_, _)
TryFormats(utc_time_str, k) ==
    IF k > Len(TimeFormats) THEN None
    ELSE IF Matches(utc_time_str, TimeFormats[k])
         THEN Some(AddSeconds(Strptime(utc_time_str, TimeFormats[k]), TehranOffset))
         ELSE TryFormats(utc_time_str, k + 1)

ParseToTehranTime(utc_time_str) ==
    IF utc_time_str.text = "" THEN None
    ELSE TryFormats(utc_time_str, 1)

----------------------------------------------------------------------------
(* Items.  Of a news item the model keeps the fields the pipeline reads or *)
(* writes (source and image_url are only displayed); of a report it keeps  *)
(* symbol and date (the figures are only displayed).                       *)

NewsItem(url, title, description, published_at) ==
    [type |-> "news", url |-> url, title |-> title, description |-> description,
     published_at |-> published_at,
     translated_title |-> NoText, translated_description |-> NoText]

IsReport(item) == item.type = "report"

----------------------------------------------------------------------------
(* filter_articles_by_time *)

\* float("inf"), the value of the "All articles" option
Inf == 999999999

\* start_datetime <= published_time <= end_datetime, for each item
RECURSIVE RangeLoop(_, _, _, _)
RangeLoop(items, start_datetime, end_datetime, filtered_items) ==
    IF items = <<>> THEN [exc |-> FALSE, value |-> filtered_items]
    ELSE LET item == Head(items)
             published_time == ParseToTehranTime(item.published_at)
         IN IF published_time.some
            THEN IF CompareRaises(start_datetime, published_time)
                 THEN [exc |-> TRUE, value |-> <<>>]          \* TypeError
                 ELSE IF LessEq(start_datetime, published_time)
                         /\ LessEq(published_time, end_datetime)
                      THEN RangeLoop(Tail(items), start_datetime, end_datetime,
                                     Append(filtered_items, item))
                      ELSE RangeLoop(Tail(items), start_datetime, end_datetime,
                                     filtered_items)
            ELSE RangeLoop(Tail(items), start_datetime, end_datetime, filtered_items)

\* published_time >= cutoff_time, for each item
RECURSIVE CutoffLoop(_, _, _)
CutoffLoop(items, cutoff_time, filtered_items) ==
    IF items = <<>> THEN [exc |-> FALSE, value |-> filtered_items]
    ELSE LET item == Head(items)
             published_time == ParseToTehranTime(item.published_at)
         IN IF published_time.some
            THEN IF CompareRaises(published_time, cutoff_time)
                 THEN [exc |-> TRUE, value |-> <<>>]          \* TypeError
                 ELSE IF LessEq(cutoff_time, published_time)
                      THEN CutoffLoop(Tail(items), cutoff_time, Append(filtered_items, item))
                      ELSE CutoffLoop(Tail(items), cutoff_time, filtered_items)
            ELSE CutoffLoop(Tail(items), cutoff_time, filtered_items)

\* the try block; time_range_hours is in seconds, utcnow is datetime.utcnow()
FilterBody(items, time_range_hours, start_date, end_date, utcnow) ==
    LET current_tehran_time == AddSeconds(utcnow, TehranOffset)
    IN IF time_range_hours = Inf
       THEN RangeLoop(items, AddSeconds(CombineMin(start_date), TehranOffset),
                      AddSeconds(CombineMax(end_date), TehranOffset), <<>>)
       ELSE CutoffLoop(items, AddSeconds(current_tehran_time, 0 - time_range_hours), <<>>)

\* faulty variant: the report test is missing and a record without
\* published_at is skipped like one with an unparseable timestamp
FilterWithoutReportBypass(items, time_range_hours, start_date, end_date, disable_filter, utcnow) ==
    IF items = <<>> THEN [raised |-> FALSE, value |-> <<>>]
    ELSE IF disable_filter THEN [raised |-> FALSE, value |-> items]
    ELSE IF IsReport(items[1]) THEN [raised |-> FALSE, value |-> <<>>]
    ELSE LET body == FilterBody(items, time_range_hours, start_date, end_date, utcnow)
         IN IF body.exc THEN [raised |-> FALSE, value |-> items]
            ELSE [raised |-> FALSE, value |-> body.value]

FilterArticlesByTime(items, time_range_hours, start_date, end_date, disable_filter, utcnow) ==
    IF items = <<>> THEN [raised |-> FALSE, value |-> <<>>]
    ELSE IF IsReport(items[1]) THEN [raised |-> FALSE, value |-> items]
    ELSE IF disable_filter THEN [raised |-> FALSE, value |-> items]
    ELSE LET body == FilterBody(items, time_range_hours, start_date, end_date, utcnow)
         IN IF body.exc THEN [raised |-> FALSE, value |-> items]   \* except: return items
            ELSE [raised |-> FALSE, value |-> body.value]

----------------------------------------------------------------------------
(* Inputs of the filter_articles_by_time specification *)

\* the values of time_range_options, in seconds
TimeRangeOptions ==
    {SecondsPerHour \div 2, SecondsPerHour, 4 * SecondsPerHour,
     12 * SecondsPerHour, 24 * SecondsPerHour, Inf}

\* datetime.utcnow() at the call: day 2 of the model's calendar, 12:00:00
UtcNow == Naive(2 * SecondsPerDay + 12 * SecondsPerHour, 0)

\* published_at strings as the vendors send them
PublishedAtSamples ==
    << Stamp("%Y-%m-%dT%H:%M:%SZ", UtcNow.s - 600, 0, 0),                \* 10 minutes ago
       Stamp("%Y-%m-%dT%H:%M:%S", UtcNow.s - 3 * SecondsPerHour, 0, 0),  \* 3 hours ago
       Stamp("%Y-%m-%dT%H:%M:%SZ", UtcNow.s - 24 * SecondsPerHour, 0, 0),\* 24 hours ago
       Stamp("%Y-%m-%d %H:%M:%S", 8 * SecondsPerHour, 0, 0),             \* day 0, 08:00:00
       Stamp("%Y-%m-%dT%H:%M:%S.%fZ", 3 * SecondsPerDay - 1, 500000, 0), \* day 2, 23:59:59.5
       Stamp("%Y-%m-%dT%H:%M:%SZ", 3 * SecondsPerDay, 0, 0),             \* day 3, 00:00:00
       Stamp("%Y-%m-%d", 2 * SecondsPerDay, 0, 0),                       \* day 2
       Stamp("%Y-%m-%dT%H:%M:%S%z", UtcNow.s - 600 + 2 * SecondsPerHour, 0,
             2 * SecondsPerHour),                         \* 10 minutes ago, written +02:00
       NotADate,
       EmptyString >>

UrlNames == <<"u1", "u2", "u3", "u4", "u5", "u6", "u7", "u8", "u9", "u10">>

FilterNewsItems ==
    {NewsItem(UrlNames[i], "T1", "D1", PublishedAtSamples[i]) : i \in 1..Len(PublishedAtSamples)}

\* start_date and end_date come from two date inputs, the second bounded
\* below by the first
DateRanges == {<<1, 1>>, <<1, 2>>, <<2, 2>>}

FilterSettings ==
    {[time_range_hours |-> 24 * SecondsPerHour, start_date |-> 1, end_date |-> 2,
      disable_filter |-> TRUE]}
    \cup {[time_range_hours |-> h, start_date |-> 1, end_date |-> 2,
           disable_filter |-> FALSE] : h \in TimeRangeOptions \ {Inf}}
    \cup {[time_range_hours |-> Inf, start_date |-> r[1], end_date |-> r[2],
           disable_filter |-> FALSE] : r \in DateRanges}

FilterCallOf(items, settings) ==
    [fn |-> "filter_articles_by_time", items |-> items,
     time_range_hours |-> settings.time_range_hours,
     start_date |-> settings.start_date, end_date |-> settings.end_date,
     disable_filter |-> settings.disable_filter, utcnow |-> UtcNow]

InitFilter ==
    /\ pc = "call"
    /\ \E items \in SeqsUpTo(FilterNewsItems, MaxItems) :
       \E settings \in FilterSettings :
          call = FilterCallOf(items, settings)
    /\ ret = [raised |-> FALSE, value |-> <<>>]
    /\ translate_calls = <<>>
    /\ NoSession

FilterCall ==
    /\ pc = "call"
    /\ call.fn = "filter_articles_by_time"
    /\ ret' = FilterArticlesByTime(call.items, call.time_range_hours, call.start_date,
                                   call.end_date, call.disable_filter, call.utcnow)
    /\ pc' = "return"
    /\ UNCHANGED <<call, translate_calls>>
    /\ UNCHANGED outside

SpecFilter == InitFilter /\ [][FilterCall]_vars

----------------------------------------------------------------------------
(* translate_with_avalai.  outcome is what the POST to                      *)
(* {avalai_api_url}/chat/completions does when it is made:                  *)
(*   "ok"          200 with choices[0].message.content = Fa(text)           *)
(*   "http_error"  raise_for_status raises (a RequestException)             *)
(*   "timeout"     requests.post raises Timeout (a RequestException)        *)
(*   "no_choices"  200 with a body without choices                          *)
(*   "exception"   any other exception (a body that is not JSON, ...)       *)
(* The result is [text, posted]: the returned text and whether the POST     *)
(* was made.                                                                *)

Outcomes == {"ok", "http_error", "timeout", "no_choices", "exception"}

PlaceholderKey == "YOUR_AVALAI_API_KEY"

\* faulty variant: a failed request gives the empty text
TranslateFailureGivesEmpty(text, avalai_api_key, outcome) ==
    IF text = NoText THEN [text |-> text, posted |-> FALSE]
    ELSE IF avalai_api_key = "" \/ avalai_api_key = PlaceholderKey
         THEN [text |-> NoText, posted |-> FALSE]
    ELSE IF outcome = "ok" THEN [text |-> Fa(text), posted |-> TRUE]
    ELSE [text |-> NoText, posted |-> TRUE]

TranslateWithAvalai(text, avalai_api_key, outcome) ==
    IF text = NoText THEN [text |-> text, posted |-> FALSE]
    ELSE IF avalai_api_key = "" \/ avalai_api_key = PlaceholderKey
         THEN [text |-> text, posted |-> FALSE]
    ELSE IF outcome = "ok" THEN [text |-> Fa(text), posted |-> TRUE]
    ELSE IF outcome = "no_choices" THEN [text |-> text, posted |-> TRUE]
    ELSE IF outcome \in {"http_error", "timeout"}
         THEN [text |-> text, posted |-> TRUE]    \* except RequestException
    ELSE [text |-> text, posted |-> TRUE]         \* except Exception

----------------------------------------------------------------------------
(* pre_process_articles *)

\* key=lambda x: parse_to_tehran_time(x["published_at"]) or datetime.min
SortKey(item) ==
    LET parsed == ParseToTehranTime(item.published_at)
    IN IF parsed.some
       THEN [aware |-> parsed.aware, s |-> parsed.s, us |-> parsed.us, off |-> parsed.off]
       ELSE DatetimeMin

\* sorted() compares keys with <, which raises TypeError for an aware and a
\* naive datetime; to order a list that holds both it must compare such a
\* pair
SortRaises(items) ==
    \E i, j \in 1..Len(items) : CompareRaises(SortKey(items[i]), SortKey(items[j]))

\* item put after every item of sorted_items whose key is not smaller:
\* descending, equal keys in their original order (sorted is stable, also
\* with reverse=True)
RECURSIVE InsertDescending(_, _)
InsertDescending(sorted_items, item) ==
    IF sorted_items = <<>> THEN <<item>>
    ELSE IF LessEq(SortKey(item), SortKey(Head(sorted_items)))
         THEN <<Head(sorted_items)>> \o InsertDescending(Tail(sorted_items), item)
         ELSE <<item>> \o sorted_items

RECURSIVE SortedDescending(_)
SortedDescending(items) ==
    IF items = <<>> THEN <<>>
    ELSE InsertDescending(SortedDescending(SubSeq(items, 1, Len(items) - 1)),
                          items[Len(items)])

CallRecord(i, field, text, outcome, got) ==
    [item |-> i, field |-> field, text |-> text, posted |-> got.posted,
     outcome |-> IF got.posted THEN outcome ELSE "none", result |-> got.text]

\* for i, item in enumerate(sorted_items): ...   (i counts from 1 here)
\* responses[i] holds the outcomes of the requests for the title and the
\* description of the i-th item
RECURSIVE ProcessLoop(_, _, _, _, _, _, _, _)
ProcessLoop(sorted_items, i, enable_translation, num_items_to_translate, avalai_api_key, responses, done, calls) ==
    IF i > Len(sorted_items) THEN [value |-> done, calls |-> calls]
    ELSE LET item == sorted_items[i] IN
         IF enable_translation /\ i <= num_items_to_translate
         THEN LET title == TranslateWithAvalai(item.title, avalai_api_key,
                                               responses[i].title)
                  description == TranslateWithAvalai(item.description, avalai_api_key,
                                                     responses[i].description)
              IN ProcessLoop(sorted_items, i + 1, enable_translation,
                     num_items_to_translate, avalai_api_key, responses,
                     Append(done, [item EXCEPT !.translated_title = title.text,
                                               !.translated_description = description.text]),
                     calls \o << CallRecord(i, "title", item.title,
                                            responses[i].title, title),
                                 CallRecord(i, "description", item.description,
                                            responses[i].description, description) >>)
         ELSE ProcessLoop(sorted_items, i + 1, enable_translation,
                     num_items_to_translate, avalai_api_key, responses,
                     Append(done, [item EXCEPT !.translated_title = item.title,
                                               !.translated_description = item.description]),
                     calls)

\* The avalai_api_url argument only selects the host of the endpoint and is
\* left out; avalai_api_key is the module's AVALAI_API_KEY.
PreProcessArticles(items, enable_translation, num_items_to_translate, avalai_api_key, responses) ==
    IF items = <<>> THEN [raised |-> FALSE, value |-> <<>>, calls |-> <<>>]
    ELSE IF IsReport(items[1]) THEN [raised |-> FALSE, value |-> items, calls |-> <<>>]
    ELSE IF SortRaises(items)
         THEN [raised |-> FALSE, value |-> items, calls |-> <<>>]   \* except: return items
    ELSE LET loop == ProcessLoop(SortedDescending(items), 1, enable_translation,
                                 num_items_to_translate, avalai_api_key, responses,
                                 <<>>, <<>>)
         IN [raised |-> FALSE, value |-> loop.value, calls |-> loop.calls]

----------------------------------------------------------------------------
(* Inputs of the pre_process_articles specification *)

PreNewsItems ==
    { NewsItem("u1", "T1", "D1", PublishedAtSamples[1]),    \* 10 minutes ago
      NewsItem("u2", "T2", "D2", PublishedAtSamples[4]),    \* day 0
      NewsItem("u3", NoText, "D1", NotADate),               \* no title, no date
      NewsItem("u4", "T2", "D1", PublishedAtSamples[8]) }   \* written with +02:00

ApiKeys == {"", PlaceholderKey, "valid key"}

\* the outcomes of the two requests made for one item: both succeed, one of
\* them fails in one of the four ways, or both fail
OutcomePairs ==
    {[title |-> "ok", description |-> "ok"],
     [title |-> "http_error", description |-> "timeout"]}
    \cup {[title |-> o, description |-> "ok"] : o \in Outcomes \ {"ok"}}
    \cup {[title |-> "ok", description |-> o] : o \in Outcomes \ {"ok"}}

AllOk == [title |-> "ok", description |-> "ok"]

\* the outcomes of the requests for the first n items, n the number of
\* items that can be translated
ResponsesFor(n, num_items_to_translate) ==
    {[i \in 1..num_items_to_translate |-> IF i <= n THEN r[i] ELSE AllOk] :
        r \in [1..n -> OutcomePairs]}

\* num_items_to_translate is 1 unless translation is enabled, and then the
\* slider gives 1 or more
PreSettings(items) ==
    {[enable_translation |-> FALSE, num_items_to_translate |-> 1,
      avalai_api_key |-> PlaceholderKey, responses |-> <<AllOk>>]}
    \cup {[enable_translation |-> TRUE, num_items_to_translate |-> n,
           avalai_api_key |-> k, responses |-> [i \in 1..n |-> AllOk]] :
            n \in 1..MaxTranslate, k \in ApiKeys \ {"valid key"}}
    \cup UNION {{[enable_translation |-> TRUE, num_items_to_translate |-> n,
                  avalai_api_key |-> "valid key", responses |-> r] :
                    r \in ResponsesFor(Min(n, Len(items)), n)} : n \in 1..MaxTranslate}

PreCallOf(items, settings) ==
    [fn |-> "pre_process_articles", items |-> items,
     enable_translation |-> settings.enable_translation,
     num_items_to_translate |-> settings.num_items_to_translate,
     avalai_api_key |-> settings.avalai_api_key, responses |-> settings.responses]

InitPre ==
    /\ pc = "call"
    /\ \E items \in SeqsUpTo(PreNewsItems, MaxItems) :
       \E settings \in PreSettings(items) :
          call = PreCallOf(items, settings)
    /\ ret = [raised |-> FALSE, value |-> <<>>]
    /\ translate_calls = <<>>
    /\ NoSession

PreProcessCall ==
    /\ pc = "call"
    /\ call.fn = "pre_process_articles"
    /\ LET got == PreProcessArticles(call.items, call.enable_translation,
                      call.num_items_to_translate, call.avalai_api_key, call.responses)
       IN /\ ret' = [raised |-> got.raised, value |-> got.value]
          /\ translate_calls' = got.calls
    /\ pc' = "return"
    /\ UNCHANGED call
    /\ UNCHANGED outside

SpecPre == InitPre /\ [][PreProcessCall]_vars

\* both functions on lists of reports
InitReports ==
    /\ pc = "call"
    /\ \E items \in NonEmptySeqsUpTo(ReportItems, MaxItems) :
          \/ \E settings \in FilterSettings : call = FilterCallOf(items, settings)
          \/ \E settings \in PreSettings(items) : call = PreCallOf(items, settings)
    /\ ret = [raised |-> FALSE, value |-> <<>>]
    /\ translate_calls = <<>>
    /\ NoSession

SpecReports == InitReports /\ [][FilterCall \/ PreProcessCall]_vars

----------------------------------------------------------------------------
(* Properties of fetch_news (specification SpecFetch) *)

Returned == pc = "return"

HasPair == call.result.kind = "pair"

AllHashable(seq) == \A i \in 1..Len(seq) : Hashable(seq[i].url)

\* index of the first item of seq that carries url
FirstIndexOf(seq, url) ==
    CHOOSE i \in 1..Len(seq) :
        /\ seq[i].url = url
        /\ \A j \in 1..(i - 1) : seq[j].url # url

\* the items of seq at the indexes in S, up to index n, in the order of seq
RECURSIVE PickIndexes(_, _, _)
PickIndexes(seq, S, n) ==
    IF n = 0 THEN <<>>
    ELSE PickIndexes(seq, S, n - 1) \o (IF n \in S THEN <<seq[n]>> ELSE <<>>)

\* seq without the items whose url an earlier item already carries
FirstOccurrences(seq) ==
    PickIndexes(seq, {i \in 1..Len(seq) :
                        \A j \in 1..(i - 1) : seq[j].url # seq[i].url}, Len(seq))

\* C1: for every list of items a non-report adapter returns, the list
\* fetch_news returns holds at most one item per url, the item kept for a
\* url is the first item of the adapter's list with that url, and the kept
\* items stand in the order of those first occurrences.
C1_DedupKeepsFirstOccurrence ==
    (Returned /\ call.fn = "fetch_news" /\ call.selected_api \in NewsApis /\ HasPair) =>
        LET items == call.result.items
            out == ret.value
        IN /\ \A i, j \in 1..Len(out) : i # j => out[i].url # out[j].url
           /\ \A k \in 1..Len(out) :
                 /\ \E i \in 1..Len(items) : items[i].url = out[k].url
                 /\ out[k] = items[FirstIndexOf(items, out[k].url)]
           /\ \A k, l \in 1..Len(out) :
                 k < l => FirstIndexOf(items, out[k].url) < FirstIndexOf(items, out[l].url)

\* a url came twice with different content, and something was returned
C1_Witness ==
    /\ Returned /\ call.fn = "fetch_news" /\ call.selected_api \in NewsApis /\ HasPair
    /\ \E i, j \in 1..Len(call.result.items) :
          /\ i < j
          /\ call.result.items[i].url = call.result.items[j].url
          /\ call.result.items[i] # call.result.items[j]
    /\ Len(ret.value) = 2

\* C2: fetch_news never returns more than max_records items; for a
\* non-report API the result is the first max_records entries of the
\* url-deduplicated list (dedup first, then the cut), and for the report
\* API it is the first max_records entries of the adapter's list, repeated
\* reports kept.
C2_AtMostMaxRecords ==
    (Returned /\ call.fn = "fetch_news") =>
        /\ Len(ret.value) <= call.max_records
        /\ (HasPair /\ call.selected_api = ReportApi) =>
              ret.value = Slice(call.result.items, call.max_records)
        /\ (HasPair /\ call.selected_api \in NewsApis /\ AllHashable(call.result.items)) =>
              ret.value = Slice(FirstOccurrences(call.result.items), call.max_records)

\* a duplicate lies inside the first max_records entries and a new url after
\* them: cutting before deduplicating would lose an item
C2_Witness ==
    /\ Returned /\ call.fn = "fetch_news" /\ call.selected_api \in NewsApis /\ HasPair
    /\ AllHashable(call.result.items)
    /\ Len(call.result.items) > call.max_records
    /\ Len(ret.value) = call.max_records
    /\ ret.value # Slice(call.result.items, call.max_records)

\* C3: fetch_news never raises; for an unknown API name, an adapter result
\* that is not a 2-tuple, one whose items are not a list, or an exception in
\* the adapter or in the merge step, it returns the empty list.
C3_NeverRaises ==
    (Returned /\ call.fn = "fetch_news") =>
        /\ ~ret.raised
        /\ ( \/ call.selected_api \notin ApiFunctions
             \/ call.result.kind \in {"raise", "not_tuple", "not_list"}
             \/ (call.selected_api \in NewsApis /\ HasPair
                   /\ ~AllHashable(call.result.items)) )
           => ret.value = <<>>

\* the merge step raised after it had already kept an item
C3_Witness ==
    /\ Returned /\ call.fn = "fetch_news" /\ call.selected_api \in NewsApis /\ HasPair
    /\ Len(call.result.items) >= 2
    /\ Hashable(call.result.items[1].url)
    /\ ~Hashable(call.result.items[2].url)
    /\ ret = [raised |-> FALSE, value |-> <<>>]

----------------------------------------------------------------------------
(* Properties of filter_articles_by_time (specification SpecFilter) *)

Range(seq) == {seq[i] : i \in 1..Len(seq)}

IsNewsList(items) == items # <<>> /\ ~IsReport(items[1])

FilterReturned == Returned /\ call.fn = "filter_articles_by_time"

\* the string is empty or matches none of the accepted formats
Unparseable(str) == str.text # "stamp"

\* the instant a parseable string names, in whole seconds of utc
UtcSeconds(str) == str.s - (IF str.fmt \in OffsetFormats THEN str.off ELSE 0)

\* C5: a news item whose published_at is empty or matches no accepted format
\* is never in the output of filter_articles_by_time in relative-window mode
\* nor in explicit-range mode, and is in the output when disable_filter is
\* true.
C5_UnparseableOnlyWhenDisabled ==
    (FilterReturned /\ IsNewsList(call.items)) =>
        \A i \in 1..Len(call.items) :
            Unparseable(call.items[i].published_at) =>
                IF call.disable_filter
                THEN call.items[i] \in Range(ret.value)
                ELSE call.items[i] \notin Range(ret.value)

WithinWindow(item, time_range_hours, utcnow) ==
    /\ ~Unparseable(item.published_at)
    /\ UtcSeconds(item.published_at) + TehranOffset
          >= (utcnow.s + TehranOffset) - time_range_hours

\* C6: in relative-window mode, for every list of news items the output is
\* exactly the sub-sequence of the items whose timestamp plus 3h30 is at or
\* after (utc now plus 3h30) minus time_range_hours, whatever formats the
\* timestamps of the list are written in.
C6_RelativeWindowExact ==
    (FilterReturned /\ IsNewsList(call.items) /\ ~call.disable_filter
        /\ call.time_range_hours # Inf) =>
        ret.value = SelectSeq(call.items,
                        LAMBDA item : WithinWindow(item, call.time_range_hours, call.utcnow))

\* start_date 00:00:00 to the last second, 23:59:59, of end_date
WithinDates(item, start_date, end_date) ==
    /\ ~Unparseable(item.published_at)
    /\ start_date * SecondsPerDay + TehranOffset
          <= UtcSeconds(item.published_at) + TehranOffset
    /\ UtcSeconds(item.published_at) + TehranOffset
          <= end_date * SecondsPerDay + (SecondsPerDay - 1) + TehranOffset

\* C7: in explicit-range mode the output is exactly the sub-sequence of the
\* news items whose shifted timestamp lies between start_date 00:00 and
\* end_date 23:59:59, both shifted by 3h30 and both inclusive.
C7_ExplicitRangeExact ==
    (FilterReturned /\ IsNewsList(call.items) /\ ~call.disable_filter
        /\ call.time_range_hours = Inf) =>
        ret.value = SelectSeq(call.items,
                        LAMBDA item : WithinDates(item, call.start_date, call.end_date))

----------------------------------------------------------------------------
(* Properties of the two functions on reports (specification SpecReports) *)

PreReturned == Returned /\ call.fn = "pre_process_articles"

\* C4: for every non-empty list of report items and every value of the
\* other arguments, filter_articles_by_time and pre_process_articles each
\* return the input list: same items, same order, every field as it was,
\* and translate_with_avalai is not called.
C4_ReportsPassUnchanged ==
    (Returned /\ call.fn \in {"filter_articles_by_time", "pre_process_articles"}
        /\ call.items # <<>> /\ \A i \in 1..Len(call.items) : IsReport(call.items[i])) =>
        /\ ret = [raised |-> FALSE, value |-> call.items]
        /\ translate_calls = <<>>

\* reports went through pre_process_articles with translation switched on
\* and a usable key
C4_Witness ==
    /\ PreReturned
    /\ Len(call.items) >= 2 /\ IsReport(call.items[1]) /\ call.items[1] # call.items[2]
    /\ call.enable_translation /\ call.avalai_api_key = "valid key"
    /\ ret.value = call.items
    /\ translate_calls = <<>>

----------------------------------------------------------------------------
(* Properties of pre_process_articles (specification SpecPre) *)

Count(x, seq) == Cardinality({i \in 1..Len(seq) : seq[i] = x})

IsPermutation(a, b) ==
    /\ Len(a) = Len(b)
    /\ \A x \in Range(a) \cup Range(b) : Count(x, a) = Count(x, b)

\* the item as the adapter made it
Untranslated(item) ==
    [item EXCEPT !.translated_title = NoText, !.translated_description = NoText]

UntranslatedSeq(seq) == [i \in 1..Len(seq) |-> Untranslated(seq[i])]

\* a does not come after b in the order "newest first, unparseable last"
NotOlder(a, b) ==
    \/ Unparseable(b.published_at)
    \/ /\ ~Unparseable(a.published_at)
       /\ \/ UtcSeconds(a.published_at) > UtcSeconds(b.published_at)
          \/ /\ UtcSeconds(a.published_at) = UtcSeconds(b.published_at)
             /\ a.published_at.us >= b.published_at.us

\* C8: for every list of news items, pre_process_articles returns a
\* permutation of the input ordered by timestamp descending, an item with
\* an unparseable timestamp after every item with a parseable one.
C8_SortedNewestFirst ==
    (PreReturned /\ IsNewsList(call.items)) =>
        /\ IsPermutation(UntranslatedSeq(ret.value), UntranslatedSeq(call.items))
        /\ \A i, j \in 1..Len(ret.value) : i < j => NotOlder(ret.value[i], ret.value[j])

FieldOf(item, field) == IF field = "title" THEN item.title ELSE item.description

\* C9: after pre_process_articles on a list of news items the endpoint has
\* been called only for the first num_items_to_translate items of the
\* returned order (for none with translation disabled), and every other
\* returned item has translated_title = title and
\* translated_description = description.
C9_TranslatesOnlyFirstN ==
    (PreReturned /\ IsNewsList(call.items)) =>
        /\ \A k \in 1..Len(translate_calls) :
              translate_calls[k].posted =>
                 /\ call.enable_translation
                 /\ translate_calls[k].item <= call.num_items_to_translate
                 /\ translate_calls[k].item <= Len(ret.value)
                 /\ translate_calls[k].text
                       = FieldOf(ret.value[translate_calls[k].item], translate_calls[k].field)
        /\ \A i \in 1..Len(ret.value) :
              (~call.enable_translation \/ i > call.num_items_to_translate) =>
                 /\ ret.value[i].translated_title = ret.value[i].title
                 /\ ret.value[i].translated_description = ret.value[i].description

\* the call asked for a translation and did not get one
FailedCall(c) ==
    /\ c.text # NoText
    /\ \/ ~c.posted                      \* missing or placeholder key
       \/ c.outcome # "ok"

TranslatedField(item, field) ==
    IF field = "title" THEN item.translated_title ELSE item.translated_description

\* the loop handled the i-th returned item
Processed(i) ==
    IF call.enable_translation /\ i <= call.num_items_to_translate
    THEN \A field \in {"title", "description"} :
            \E k \in 1..Len(translate_calls) :
               /\ translate_calls[k].item = i
               /\ translate_calls[k].field = field
               /\ TranslatedField(ret.value[i], field) = translate_calls[k].result
    ELSE /\ ret.value[i].translated_title = ret.value[i].title
         /\ ret.value[i].translated_description = ret.value[i].description

\* C10: when a translation request fails (missing or placeholder key, HTTP
\* error, timeout, response without choices, any exception),
\* translate_with_avalai returns the original text, pre_process_articles
\* stores it in the translated field, goes on with the remaining items, and
\* no exception leaves pre_process_articles.
C10_FailedTranslationKeepsOriginal ==
    PreReturned =>
        /\ ~ret.raised
        /\ \A k \in 1..Len(translate_calls) :
              LET c == translate_calls[k]
              IN FailedCall(c) =>
                    /\ c.result = c.text
                    /\ c.item <= Len(ret.value)
                    /\ TranslatedField(ret.value[c.item], c.field) = c.text
                    /\ \A j \in c.item..Len(ret.value) : Processed(j)

\* the request for the first item's title timed out, and the second item
\* was translated after it
C10_Witness ==
    /\ PreReturned
    /\ \E k, l \in 1..Len(translate_calls) :
          /\ translate_calls[k].item = 1 /\ translate_calls[k].field = "title"
          /\ translate_calls[k].posted /\ translate_calls[k].outcome = "timeout"
          /\ translate_calls[l].item = 2 /\ translate_calls[l].field = "title"
          /\ translate_calls[l].posted /\ translate_calls[l].outcome = "ok"
          /\ ret.value[1].translated_title = ret.value[1].title
          /\ ret.value[2].translated_title = Fa(ret.value[2].title)
    /\ Len(ret.value) = 3
    /\ ret.value[3].translated_title = ret.value[3].title

----------------------------------------------------------------------------
(* The JSON cache file: save_articles_to_file, load_articles_from_file       *)
(*                                                                         *)
(* A text is the sequence of its characters; a Python value is its type    *)
(* and its repr.  json.dump writes one JSON text per field value and       *)
(* json.load reads it back; the array and object structure of the file is  *)
(* kept as a sequence of records.                                           *)

MaxSaved == 2        \* longest list saved to the file
MaxChars == 2        \* longest text of a field

Quote == "\""
Backslash == "\\"
\* a character outside ASCII (a Persian letter of a translated title)
Kaf == "U+06A9"
KafEscape == <<Backslash, "u", "0", "6", "a", "9">>

Str(chars) == [type |-> "str", repr |-> chars]
IntOf(digits) == [type |-> "int", repr |-> digits]
FloatOf(digits) == [type |-> "float", repr |-> digits]
PyNone == [type |-> "NoneType", repr |-> <<>>]

\* faulty variant: the backslash is written as it is
RECURSIVE EncodeWithoutBackslashEscape(_)
EncodeWithoutBackslashEscape(chars) ==
    IF chars = <<>> THEN <<>>
    ELSE LET c == Head(chars)
             out == CASE c = Quote -> <<Backslash, Quote>>
                      [] c = Kaf -> KafEscape
                      [] OTHER -> <<c>>
         IN out \o EncodeWithoutBackslashEscape(Tail(chars))

\* json.encoder.py_encode_basestring_ascii, character by character
RECURSIVE EncodeBasestringAscii(_)
EncodeBasestringAscii(chars) ==
    IF chars = <<>> THEN <<>>
    ELSE LET c == Head(chars)
             out == CASE c = Quote -> <<Backslash, Quote>>
                      [] c = Backslash -> <<Backslash, Backslash>>
                      [] c = Kaf -> KafEscape
                      [] OTHER -> <<c>>
         IN out \o EncodeBasestringAscii(Tail(chars))

Null == <<"n", "u", "l", "l">>

\* json.dumps of one field value
JsonDumps(value) ==
    CASE value.type = "str" -> <<Quote>> \o EncodeBasestringAscii(value.repr) \o <<Quote>>
      [] value.type = "int" -> value.repr
      [] value.type = "float" -> value.repr
      [] value.type = "NoneType" -> Null

\* json.decoder.scanstring on the text between the quotes;
\* [ok |-> FALSE] is JSONDecodeError
RECURSIVE ScanString(_, _)
ScanString(text, chars) ==
    IF text = <<>> THEN [ok |-> TRUE, chars |-> chars]
    ELSE IF Head(text) = Quote THEN [ok |-> FALSE, chars |-> <<>>]
    ELSE IF Head(text) # Backslash THEN ScanString(Tail(text), Append(chars, Head(text)))
    ELSE IF Len(text) < 2 THEN [ok |-> FALSE, chars |-> <<>>]
    ELSE IF text[2] \in {Quote, Backslash}
         THEN ScanString(SubSeq(text, 3, Len(text)), Append(chars, text[2]))
    ELSE IF Len(text) >= 6 /\ SubSeq(text, 1, 6) = KafEscape
         THEN ScanString(SubSeq(text, 7, Len(text)), Append(chars, Kaf))
    ELSE [ok |-> FALSE, chars |-> <<>>]

\* json.loads of one field value
JsonLoads(text) ==
    IF text = <<>> THEN [ok |-> FALSE, value |-> PyNone]
    ELSE IF text = Null THEN [ok |-> TRUE, value |-> PyNone]
    ELSE IF Head(text) = Quote
         THEN IF Len(text) < 2 \/ text[Len(text)] # Quote
              THEN [ok |-> FALSE, value |-> PyNone]
              ELSE LET s == ScanString(SubSeq(text, 2, Len(text) - 1), <<>>)
                   IN [ok |-> s.ok, value |-> Str(s.chars)]
    ELSE IF \E i \in 1..Len(text) : text[i] \in {".", "e"}
         THEN [ok |-> TRUE, value |-> FloatOf(text)]
         ELSE [ok |-> TRUE, value |-> IntOf(text)]

\* json.dump(articles, f): the text of the whole list
JsonDump(articles) ==
    [i \in 1..Len(articles) |->
        [k \in DOMAIN articles[i] |-> JsonDumps(articles[i][k])]]

\* json.load(f)
JsonLoad(text) ==
    LET parsed == [i \in 1..Len(text) |-> [k \in DOMAIN text[i] |-> JsonLoads(text[i][k])]]
    IN IF \E i \in 1..Len(text) : \E k \in DOMAIN text[i] : ~parsed[i][k].ok
       THEN [ok |-> FALSE, data |-> <<>>]
       ELSE [ok |-> TRUE,
             data |-> [i \in 1..Len(text) |-> [k \in DOMAIN text[i] |-> parsed[i][k].value]]]

\* what the file system does to a call
IoOutcomes == {"ok", "open_fails", "fails_midway"}

\* the file after save_articles_to_file(articles); the function returns None
\* whatever happens
SaveArticlesToFile(file, articles, outcome) ==
    CASE outcome = "ok" -> [state |-> "written", text |-> JsonDump(articles)]
      [] outcome = "open_fails" -> file
      [] outcome = "fails_midway" -> [state |-> "truncated", text |-> <<>>]

\* faulty variant: a file that does not parse is returned as it was read
LoadArticlesKeepsUnparsed(file, outcome) ==
    IF outcome # "ok" THEN <<>>
    ELSE IF file.state = "absent" THEN <<>>
    ELSE IF file.state = "truncated" THEN <<>>
    ELSE LET loaded == JsonLoad(file.text)
         IN IF loaded.ok THEN loaded.data ELSE file.text

\* load_articles_from_file()
LoadArticlesFromFile(file, outcome) ==
    IF outcome # "ok" THEN <<>>
    ELSE IF file.state = "absent" THEN <<>>
    ELSE IF file.state = "truncated" THEN <<>>
    ELSE LET loaded == JsonLoad(file.text)
         IN IF loaded.ok THEN loaded.data ELSE <<>>

\* texts of up to MaxChars characters
Chars == {"a", "u", Quote, Backslash, Kaf}
Texts == UNION {[1..n -> Chars] : n \in 0..MaxChars}

\* news items as the adapters and the translation make them, and reports
SavedItems ==
    {[type |-> Str(<<"n">>), title |-> Str(<<"a">>), translated_title |-> Str(t)] : t \in Texts}
    \cup {[type |-> Str(<<"r">>), revenue |-> r, eps |-> e] :
            r \in {IntOf(<<"0">>), IntOf(<<"-", "5">>), PyNone},
            e \in {FloatOf(<<"6", ".", "0">>), FloatOf(<<"1", "e", "-", "0", "5">>), IntOf(<<"6">>)}}

\* reports of three different years
FewItems ==
    {[type |-> Str(<<"r">>), revenue |-> IntOf(<<y>>), eps |-> FloatOf(<<y, ".", "5">>)] :
        y \in {"1", "2", "3"}}

\* lists of up to MaxSaved items: any item first or last, reports around it
SavedLists ==
    {<<>>} \cup UNION {{<<x>> \o t, t \o <<x>>} :
                         x \in SavedItems, t \in SeqsUpTo(FewItems, MaxSaved - 1)}

\* the file a previous search left
OldFile ==
    [state |-> "written",
     text |-> JsonDump(<<[type |-> Str(<<"n">>), title |-> Str(<<"u">>),
                          translated_title |-> Str(<<Kaf>>)]>>)]

InitFiles ==
    /\ pc = "call"
    /\ \E articles \in SavedLists :
       \E save_outcome \in IoOutcomes, load_outcome \in {"ok", "open_fails"} :
          call = [fn |-> "save_articles_to_file", articles |-> articles,
                  save_outcome |-> save_outcome, load_outcome |-> load_outcome]
    /\ ret = [raised |-> FALSE, value |-> <<>>]
    /\ translate_calls = <<>>
    /\ session_state = [items |-> <<>>, selected_items |-> <<>>, chat_ids |-> EmptyDict]
    /\ temp_file \in {Absent, OldFile}
    /\ chat_ids_file = Absent
    /\ requests = <<>>

SaveCall ==
    /\ pc = "call"
    /\ call.fn = "save_articles_to_file"
    /\ temp_file' = SaveArticlesToFile(temp_file, call.articles, call.save_outcome)
    /\ pc' = "saved"
    /\ UNCHANGED <<call, ret, translate_calls, session_state, chat_ids_file, requests>>

LoadCall ==
    /\ pc \in {"call", "saved"}
    /\ call.fn = "save_articles_to_file"
    /\ ret' = [raised |-> FALSE, value |-> LoadArticlesFromFile(temp_file, call.load_outcome)]
    /\ pc' = IF pc = "saved" THEN "loaded" ELSE "loaded first"
    /\ UNCHANGED <<call, translate_calls, session_state, temp_file, chat_ids_file, requests>>

SpecFiles == InitFiles /\ [][SaveCall \/ LoadCall]_vars

----------------------------------------------------------------------------
(* Properties of the cache file (specification SpecFiles) *)

\* C11: when save_articles_to_file and then load_articles_from_file both
\* succeed, the loaded list equals the saved list: same length, same order,
\* and every field of every item with the same type and the same value.
C11_SaveLoadRoundTrip ==
    (pc = "loaded" /\ call.save_outcome = "ok" /\ call.load_outcome = "ok") =>
        ret.value = call.articles

\* a list of two items was saved and loaded: a title with a backslash and a
\* character outside ASCII, and a report with a float
C11_Witness ==
    /\ pc = "loaded" /\ call.save_outcome = "ok" /\ call.load_outcome = "ok"
    /\ Len(call.articles) = 2
    /\ call.articles[1].type = Str(<<"n">>)
    /\ call.articles[1].translated_title = Str(<<Backslash, Kaf>>)
    /\ call.articles[2] \in FewItems
    /\ call.articles[2].eps.type = "float"
    /\ temp_file.state = "written"
    /\ temp_file.text[1].translated_title = <<Quote, Backslash, Backslash>> \o KafEscape \o <<Quote>>
    /\ ret.value = call.articles

----------------------------------------------------------------------------
(* The session: one action is one run of main() from top to bottom, with   *)
(* the button or checkbox the user touched.  A checkbox the user did not   *)
(* touch returns its value argument (is_selected); the one the user clicked *)
(* returns the opposite.                                                    *)

\* any(a.get('url') == item['url'] for a in st.session_state.selected_items)
IsSelected(selected_items, item) ==
    \E k \in 1..Len(selected_items) : selected_items[k].url = item.url

\* [a for a in selected_items if a.get('url') != item['url']]
RECURSIVE WithoutUrl(_, _)
WithoutUrl(selected_items, url) ==
    IF selected_items = <<>> THEN <<>>
    ELSE IF Head(selected_items).url # url
         THEN <<Head(selected_items)>> \o WithoutUrl(Tail(selected_items), url)
         ELSE WithoutUrl(Tail(selected_items), url)

\* faulty variant: a checked box appends its item without looking at is_selected
RECURSIVE DisplayLoopAlwaysAppends(_, _, _, _)
DisplayLoopAlwaysAppends(sorted_items, i, selected_items, clicked) ==
    IF i > Len(sorted_items) THEN selected_items
    ELSE LET item == sorted_items[i]
             is_selected == IsSelected(selected_items, item)
             checkbox == IF i = clicked THEN ~is_selected ELSE is_selected
         IN IF checkbox
            THEN DisplayLoopAlwaysAppends(sorted_items, i + 1,
                                          Append(selected_items, item), clicked)
            ELSE IF is_selected
                 THEN DisplayLoopAlwaysAppends(sorted_items, i + 1,
                                               WithoutUrl(selected_items, item.url), clicked)
                 ELSE DisplayLoopAlwaysAppends(sorted_items, i + 1, selected_items, clicked)

\* for i, item in enumerate(sorted_items): the checkbox of each article
RECURSIVE DisplayLoop(_, _, _, _)
DisplayLoop(sorted_items, i, selected_items, clicked) ==
    IF i > Len(sorted_items) THEN selected_items
    ELSE LET item == sorted_items[i]
             is_selected == IsSelected(selected_items, item)
             checkbox == IF i = clicked THEN ~is_selected ELSE is_selected
         IN IF checkbox
            THEN IF ~is_selected
                 THEN DisplayLoop(sorted_items, i + 1, Append(selected_items, item), clicked)
                 ELSE DisplayLoop(sorted_items, i + 1, selected_items, clicked)
            ELSE IF is_selected
                 THEN DisplayLoop(sorted_items, i + 1,
                                  WithoutUrl(selected_items, item.url), clicked)
                 ELSE DisplayLoop(sorted_items, i + 1, selected_items, clicked)

\* faulty variant: reports are drawn with a checkbox each
DisplayedWithReportCheckboxes(items) ==
    IF items = <<>> THEN <<>>
    ELSE IF IsReport(items[1]) THEN items
    ELSE IF SortRaises(items) THEN <<>>
    ELSE SortedDescending(items)

\* the articles display_items shows, in order; none when sorted() raises
Displayed(items) ==
    IF items = <<>> \/ IsReport(items[1]) \/ SortRaises(items) THEN <<>>
    ELSE SortedDescending(items)

\* display_items(items): the selection after the run; reports have no
\* checkbox, and an exception of sorted() is caught before any is drawn
DisplayItems(items, selected_items, clicked) ==
    DisplayLoop(Displayed(items), 1, selected_items, clicked)

\* faulty variant: the file is not removed
ClearHandlerKeepsFile(state) ==
    [items |-> <<>>, selected_items |-> <<>>, chat_ids |-> state.chat_ids,
     file |-> [state |-> "written", text |-> state.items]]

\* if clear_button: ...
ClearHandler(state) ==
    [items |-> <<>>, selected_items |-> <<>>, chat_ids |-> state.chat_ids, file |-> Absent]

\* faulty variant: a search without items saves the empty list
SearchHandlerSavesEmptyList(state, file, selected_api, result, max_records, settings) ==
    LET fetched == FetchNews(selected_api, result, max_records).value
        filtered_items == FilterArticlesByTime(fetched, settings.time_range_hours,
                              settings.start_date, settings.end_date,
                              settings.disable_filter, UtcNow).value
        kept == IF filtered_items = <<>> /\ selected_api # ReportApi
                THEN fetched ELSE filtered_items
        items == PreProcessArticles(kept, FALSE, 1, PlaceholderKey, <<AllOk>>).value
    IN [items |-> items,
        selected_items |-> IF fetched # <<>> THEN <<>> ELSE state.selected_items,
        chat_ids |-> state.chat_ids,
        file |-> [state |-> "written", text |-> items]]

\* if search_button: ...  (translation switched off)
SearchHandler(state, file, selected_api, result, max_records, settings) ==
    LET fetched == FetchNews(selected_api, result, max_records).value
        filtered_items == FilterArticlesByTime(fetched, settings.time_range_hours,
                              settings.start_date, settings.end_date,
                              settings.disable_filter, UtcNow).value
        kept == IF filtered_items = <<>> /\ selected_api # ReportApi
                THEN fetched ELSE filtered_items
        items == PreProcessArticles(kept, FALSE, 1, PlaceholderKey, <<AllOk>>).value
    IN IF fetched # <<>>
       THEN [items |-> items, selected_items |-> <<>>, chat_ids |-> state.chat_ids,
             file |-> [state |-> "written", text |-> items]]
       ELSE [items |-> <<>>, selected_items |-> state.selected_items,
             chat_ids |-> state.chat_ids, file |-> file]

\* load_chat_ids(): the chat-id file is kept as the map json.dump wrote
LoadChatIds(file, outcome) ==
    IF outcome # "ok" THEN EmptyDict
    ELSE IF file.state = "absent" THEN EmptyDict
    ELSE IF file.state = "truncated" THEN EmptyDict
    ELSE file.text

\* st.session_state.items = load_articles_from_file() at the start of a
\* session; the session keeps the file as the list json.dump wrote (what
\* json.load makes of the text is the subject of SpecFiles)
SessionItems(file) == IF file.state = "written" THEN file.text ELSE <<>>

\* if st.button("Reset Selection"): ...
ResetHandler(state) == [state EXCEPT !.selected_items = <<>>]

----------------------------------------------------------------------------
(* Inputs of the session *)

SessionNewsItems ==
    { NewsItem("u1", "T1", "D1", PublishedAtSamples[1]),    \* 10 minutes ago
      NewsItem("u2", "T2", "D2", PublishedAtSamples[4]),    \* day 0
      NewsItem("u3", "T1", "D2", PublishedAtSamples[2]),    \* 3 hours ago
      NewsItem("u4", "T2", "D1", PublishedAtSamples[8]) }   \* written with +02:00

\* what the adapter gives: lists of different articles, one list with the
\* same article twice, an exception
SessionLists ==
    {s \in SeqsUpTo(SessionNewsItems, MaxItems) :
        \A i, j \in 1..Len(s) : s[i] = s[j] => i = j}
    \cup {<<a, a>> : a \in {NewsItem("u1", "T1", "D1", PublishedAtSamples[1])}}

SessionResults(selected_api) ==
    IF selected_api = ReportApi
    THEN {[kind |-> "pair", items |-> s] : s \in SeqsUpTo(ReportItems, 1)}
    ELSE {[kind |-> "raise", items |-> <<>>]}
         \cup {[kind |-> "pair", items |-> s] : s \in SessionLists}

SessionSettings ==
    {[time_range_hours |-> 24 * SecondsPerHour, start_date |-> 1, end_date |-> 2,
      disable_filter |-> TRUE],
     [time_range_hours |-> SecondsPerHour, start_date |-> 1, end_date |-> 2,
      disable_filter |-> FALSE]}

\* the run that opens the session: nothing selected, items read from the file
InitSession ==
    /\ pc = "main"
    /\ call = [fn |-> "main", event |-> "open", clicked |-> 0, fetched |-> FALSE]
    /\ ret = [raised |-> FALSE, value |-> <<>>]
    /\ translate_calls = <<>>
    /\ session_state = [items |-> <<>>, selected_items |-> <<>>, chat_ids |-> EmptyDict]
    /\ temp_file = Absent
    /\ chat_ids_file = Absent
    /\ requests = <<>>

\* the user ticks or unticks the checkbox of the i-th displayed article
Click ==
    /\ pc = "main"
    /\ \E i \in 1..Len(Displayed(session_state.items)) :
          /\ session_state' =
                [session_state EXCEPT !.selected_items =
                    DisplayItems(session_state.items, session_state.selected_items, i)]
          /\ call' = [fn |-> "main", event |-> "click", clicked |-> i, fetched |-> FALSE]
    /\ UNCHANGED <<pc, ret, translate_calls, temp_file, chat_ids_file, requests>>

\* "Clear Results": the handler, then the rerun that st.experimental_rerun()
\* starts.  In the runs of a session ret.value is the list that main() last
\* handed to save_articles_to_file, <<>> when there was none or os.remove
\* came after it.
Clear ==
    /\ pc = "main"
    /\ LET after == ClearHandler(session_state)
       IN /\ session_state' =
                [items |-> after.items,
                 selected_items |-> DisplayItems(after.items, after.selected_items, 0),
                 chat_ids |-> after.chat_ids]
          /\ temp_file' = after.file
    /\ call' = [fn |-> "main", event |-> "clear", clicked |-> 0, fetched |-> FALSE]
    /\ ret' = [raised |-> FALSE, value |-> <<>>]
    /\ UNCHANGED <<pc, translate_calls, chat_ids_file, requests>>

\* "Search for News/Report": the handler, then display_items in the same run
Search ==
    /\ pc = "main"
    /\ \E selected_api \in {"GNews", ReportApi} :
       \E result \in SessionResults(selected_api) :
       \E max_records \in {1, MaxRecords} :
       \E settings \in SessionSettings :
          LET after == SearchHandler(session_state, temp_file, selected_api, result,
                                     max_records, settings)
          IN /\ session_state' =
                   [items |-> after.items,
                    selected_items |-> DisplayItems(after.items, after.selected_items, 0),
                    chat_ids |-> after.chat_ids]
             /\ temp_file' = after.file
             /\ call' = [fn |-> "main", event |-> "search", clicked |-> 0,
                         fetched |-> after.items # <<>>,
                         selected_api |-> selected_api, settings |-> settings]
             /\ ret' = IF after.items # <<>>
                       THEN [raised |-> FALSE, value |-> after.items]
                       ELSE ret
    /\ UNCHANGED <<pc, translate_calls, chat_ids_file, requests>>

\* "Reset Selection": display_items runs first, the handler after it
Reset ==
    /\ pc = "main"
    /\ session_state' =
          ResetHandler([session_state EXCEPT !.selected_items =
              DisplayItems(session_state.items, session_state.selected_items, 0)])
    /\ call' = [fn |-> "main", event |-> "reset", clicked |-> 0, fetched |-> FALSE]
    /\ UNCHANGED <<pc, ret, translate_calls, temp_file, chat_ids_file, requests>>

\* a new session on the same host: the initialisation of main(), then
\* display_items in the same run
NewSession ==
    /\ pc = "main"
    /\ LET started == [items |-> SessionItems(temp_file), selected_items |-> <<>>,
                       chat_ids |-> LoadChatIds(chat_ids_file, "ok")]
       IN session_state' =
             [started EXCEPT !.selected_items =
                 DisplayItems(started.items, started.selected_items, 0)]
    /\ call' = [fn |-> "main", event |-> "open", clicked |-> 0, fetched |-> FALSE]
    /\ UNCHANGED <<pc, ret, translate_calls, temp_file, chat_ids_file, requests>>

SpecSession == InitSession /\ [][Click \/ Clear \/ Search \/ Reset \/ NewSession]_vars

----------------------------------------------------------------------------
(* Properties of the selection (specification SpecSession) *)

NoTwoWithSameUrl(selected_items) ==
    \A k, l \in 1..Len(selected_items) :
        selected_items[k].url = selected_items[l].url => k = l

\* the entries of selected_items whose url is not url, in order
OtherEntries(selected_items, url) ==
    LET keep == {k \in 1..Len(selected_items) : selected_items[k].url # url}
        RECURSIVE Pick(_)
        Pick(k) == IF k > Len(selected_items) THEN <<>>
                   ELSE IF k \in keep THEN <<selected_items[k]>> \o Pick(k + 1)
                   ELSE Pick(k + 1)
    IN Pick(1)

\* C12: in a run of display_items the checkbox of an article already in the
\* selection adds nothing and the checkbox of an article not in it removes
\* nothing: a click changes only the clicked article's url (absent -> one
\* entry appended, present -> every entry of that url removed), and after
\* any run (click, search, clear, reset) no two entries share a url.
C12_SelectionIdempotentByUrl ==
    [][ /\ NoTwoWithSameUrl(session_state'.selected_items)
        /\ call'.event = "click" =>
              LET item == Displayed(session_state.items)[call'.clicked]
                  before == session_state.selected_items
                  after == session_state'.selected_items
              IN /\ OtherEntries(after, item.url) = OtherEntries(before, item.url)
                 /\ IF IsSelected(before, item)
                    THEN ~IsSelected(after, item)
                    ELSE after = Append(before, item) ]_vars

\* two articles are selected and both are on display: each run evaluates
\* the checked box of an article that is already in the selection
C12_Witness ==
    /\ call.event = "click"
    /\ Len(session_state.selected_items) = 2
    /\ Len(Displayed(session_state.items)) = 2
    /\ \A k \in 1..2 : \E i \in 1..2 :
          Displayed(session_state.items)[i].url = session_state.selected_items[k].url

\* C13: after a run in which Search was pressed, whatever fetch_news
\* returned, and after a run in which Reset Selection was pressed, the
\* selection is empty.
C13_SearchAndResetClearSelection ==
    call.event \in {"search", "reset"} => session_state.selected_items = <<>>

----------------------------------------------------------------------------
(* The source adapters.  An adapter returns (items, error); the model adds *)
(* the number of HTTP requests it made and the seconds it slept.  A        *)
(* response is what one requests.get gave:                                 *)
(*   kind "ok"             2xx with a JSON body (error_field, is_list,     *)
(*                         records)                                        *)
(*   kind "http_error"     raise_for_status() raised HTTPError for status  *)
(*   kind "network_error"  requests.get raised another RequestException    *)
(*   kind "bad_json"       response.json() raised                          *)

MaxVendorRecords == 2    \* most records in one vendor response

\* error is None
NoError == "<None>"

\* from_date / to_date is None
NoDate == -1

Retries == 3
Delay == 5

Result(items, error, requests_made, sleeps) ==
    [items |-> items, error |-> error, requests |-> requests_made, sleeps |-> sleeps]

InvalidKey(api_key, placeholder) == api_key = "" \/ api_key = placeholder

\* a.get("description", "") or "No description available"
FormatArticle(a) ==
    NewsItem(a.url, a.title,
             IF a.description = NoText THEN "No description available" ELSE a.description,
             a.published_at)

\* faulty variant: only an empty key is refused, the placeholder is used
KeyedNewsAdapterEmptyKeyOnly(api_key, placeholder, response) ==
    IF api_key = "" THEN Result(<<>>, "Invalid API key", 0, <<>>)
    ELSE IF response.kind \in {"http_error", "network_error"}
         THEN Result(<<>>, "Failed to fetch", 1, <<>>)
    ELSE IF response.kind = "bad_json" THEN Result(<<>>, "Unexpected error", 1, <<>>)
    ELSE IF response.error_field THEN Result(<<>>, "API error", 1, <<>>)
    ELSE IF response.records = <<>> THEN Result(<<>>, "No articles found", 1, <<>>)
    ELSE Result([i \in 1..Len(response.records) |-> FormatArticle(response.records[i])],
                NoError, 1, <<>>)

\* the shape shared by fetch_gnews, fetch_worldnews and fetch_currentsapi_news
KeyedNewsAdapter(api_key, placeholder, response) ==
    IF InvalidKey(api_key, placeholder) THEN Result(<<>>, "Invalid API key", 0, <<>>)
    ELSE IF response.kind \in {"http_error", "network_error"}
         THEN Result(<<>>, "Failed to fetch", 1, <<>>)
    ELSE IF response.kind = "bad_json" THEN Result(<<>>, "Unexpected error", 1, <<>>)
    ELSE IF response.error_field THEN Result(<<>>, "API error", 1, <<>>)
    ELSE IF response.records = <<>> THEN Result(<<>>, "No articles found", 1, <<>>)
    ELSE Result([i \in 1..Len(response.records) |-> FormatArticle(response.records[i])],
                NoError, 1, <<>>)

FetchGnews(api_key, response) ==
    KeyedNewsAdapter(api_key, "YOUR_GNEWS_API_KEY", response)

FetchWorldnews(api_key, response) ==
    KeyedNewsAdapter(api_key, "YOUR_WORLDNEWS_API_KEY", response)

FetchCurrentsapiNews(api_key, response) ==
    KeyedNewsAdapter(api_key, "YOUR_CURRENTSAPI_API_KEY", response)

\* datetime.strptime(date, "%Y-%m-%d") of a from_date / to_date of main
DayStart(day) == Naive(day * SecondsPerDay, 0)

\* the loop of fetch_financial_report over data
RECURSIVE ReportLoop(_, _, _, _)
ReportLoop(data, from_date, to_date, reports) ==
    IF data = <<>> THEN reports
    ELSE LET report == Head(data) IN
         IF from_date # NoDate /\ to_date # NoDate
         THEN IF ~Matches(report.date, "%Y-%m-%d")
              THEN ReportLoop(Tail(data), from_date, to_date, reports)   \* ValueError
              ELSE LET report_datetime == Strptime(report.date, "%Y-%m-%d")
                   IN IF LessEq(DayStart(from_date), report_datetime)
                         /\ LessEq(report_datetime, DayStart(to_date))
                      THEN ReportLoop(Tail(data), from_date, to_date,
                                      Append(reports, report))
                      ELSE ReportLoop(Tail(data), from_date, to_date, reports)
         ELSE ReportLoop(Tail(data), from_date, to_date, Append(reports, report))

FetchFinancialReport(api_key, response, from_date, to_date) ==
    IF InvalidKey(api_key, "YOUR_FMP_API_KEY") THEN Result(<<>>, "Invalid API key", 0, <<>>)
    ELSE IF response.kind \in {"http_error", "network_error"}
         THEN Result(<<>>, "Failed to fetch", 1, <<>>)
    ELSE IF response.kind = "bad_json" THEN Result(<<>>, "Unexpected error", 1, <<>>)
    ELSE IF ~response.is_list THEN Result(<<>>, "Unexpected response format", 1, <<>>)
    ELSE IF response.records = <<>> THEN Result(<<>>, "No financial reports found", 1, <<>>)
    ELSE Result(ReportLoop(response.records, from_date, to_date, <<>>), NoError, 1, <<>>)

\* the loop of fetch_coingecko_news over articles; exc is the TypeError of
\* comparing an aware article_date with the naive start_datetime
RECURSIVE ArticleLoop(_, _, _, _)
ArticleLoop(articles, from_date, to_date, formatted_articles) ==
    IF articles = <<>> THEN [exc |-> FALSE, value |-> formatted_articles]
    ELSE LET a == Head(articles)
             article_date == ParseToTehranTime(a.published_at)
         IN IF from_date # NoDate /\ to_date # NoDate
            THEN IF ~article_date.some
                 THEN ArticleLoop(Tail(articles), from_date, to_date, formatted_articles)
                 ELSE IF CompareRaises(DayStart(from_date), article_date)
                      THEN [exc |-> TRUE, value |-> <<>>]
                 ELSE IF LessEq(DayStart(from_date), article_date)
                         /\ LessEq(article_date, DayStart(to_date))
                      THEN ArticleLoop(Tail(articles), from_date, to_date,
                                       Append(formatted_articles, FormatArticle(a)))
                      ELSE ArticleLoop(Tail(articles), from_date, to_date,
                                       formatted_articles)
            ELSE ArticleLoop(Tail(articles), from_date, to_date,
                             Append(formatted_articles, FormatArticle(a)))

\* faulty variant: every HTTP error is retried, not only 429
RECURSIVE AttemptLoopRetryAnyStatus(_, _, _, _, _, _, _)
AttemptLoopRetryAnyStatus(attempt, delay, responses, from_date, to_date, requests_made, sleeps) ==
    IF attempt >= Retries THEN Result(<<>>, "no return", requests_made, sleeps)
    ELSE LET response == responses[attempt + 1]
             slept == Append(sleeps, delay)
             made == requests_made + 1
         IN IF response.kind = "http_error"
            THEN IF attempt < Retries - 1
                 THEN AttemptLoopRetryAnyStatus(attempt + 1, delay * 2, responses,
                          from_date, to_date, made, Append(slept, delay))
                 ELSE Result(<<>>, "Max retries exceeded", made, slept)
            ELSE IF response.kind \in {"network_error", "bad_json"}
                 THEN Result(<<>>, "Unexpected error", made, slept)
            ELSE IF response.records = <<>>
                 THEN Result(<<>>, "No articles found", made, slept)
            ELSE LET loop == ArticleLoop(response.records, from_date, to_date, <<>>)
                 IN IF loop.exc THEN Result(<<>>, "Unexpected error", made, slept)
                    ELSE Result(loop.value, NoError, made, slept)

\* for attempt in range(retries): ...   ("no return" is the end of the loop)
RECURSIVE AttemptLoop(_, _, _, _, _, _, _)
AttemptLoop(attempt, delay, responses, from_date, to_date, requests_made, sleeps) ==
    IF attempt >= Retries THEN Result(<<>>, "no return", requests_made, sleeps)
    ELSE LET response == responses[attempt + 1]
             slept == Append(sleeps, delay)
             made == requests_made + 1
         IN IF response.kind = "http_error"
            THEN IF response.status = 429
                 THEN IF attempt < Retries - 1
                      THEN AttemptLoop(attempt + 1, delay * 2, responses, from_date,
                                       to_date, made, Append(slept, delay))
                      ELSE Result(<<>>, "Max retries exceeded", made, slept)
                 ELSE Result(<<>>, "Failed to fetch", made, slept)
            ELSE IF response.kind \in {"network_error", "bad_json"}
                 THEN Result(<<>>, "Unexpected error", made, slept)
            ELSE IF response.records = <<>>
                 THEN Result(<<>>, "No articles found", made, slept)
            ELSE LET loop == ArticleLoop(response.records, from_date, to_date, <<>>)
                 IN IF loop.exc THEN Result(<<>>, "Unexpected error", made, slept)
                    ELSE Result(loop.value, NoError, made, slept)

\* responses[k] is what the k-th request would get
FetchCoingeckoNews(responses, from_date, to_date) ==
    AttemptLoop(0, Delay, responses, from_date, to_date, 0, <<>>)

----------------------------------------------------------------------------
(* Inputs of the adapters *)

VendorArticles ==
    { [url |-> "u1", title |-> "T1", description |-> "D1",
       published_at |-> PublishedAtSamples[1]],              \* day 2, 11:50
      [url |-> "u2", title |-> "T2", description |-> NoText,
       published_at |-> PublishedAtSamples[4]],              \* day 0, 08:00
      [url |-> "u3", title |-> "T1", description |-> "D2",
       published_at |-> NotADate],
      [url |-> "u4", title |-> "T2", description |-> "D1",
       published_at |-> PublishedAtSamples[8]] }             \* written with +02:00

VendorReports ==
    {[type |-> "report", symbol |-> "AAPL", date |-> d] :
        d \in {Stamp("%Y-%m-%d", 0, 0, 0), Stamp("%Y-%m-%d", SecondsPerDay, 0, 0), NotADate}}

Failure(kind, status) ==
    [kind |-> kind, status |-> status, error_field |-> FALSE, is_list |-> FALSE,
     records |-> <<>>]

Body(error_field, is_list, records) ==
    [kind |-> "ok", status |-> 200, error_field |-> error_field, is_list |-> is_list,
     records |-> records]

Failures ==
    {Failure("http_error", 429), Failure("http_error", 500),
     Failure("network_error", 0), Failure("bad_json", 200)}

NewsResponses ==
    Failures \cup {Body(TRUE, FALSE, <<>>)}
    \cup {Body(FALSE, FALSE, s) : s \in SeqsUpTo(VendorArticles, MaxVendorRecords)}

ReportResponses ==
    Failures \cup {Body(TRUE, FALSE, <<>>)}
    \cup {Body(FALSE, TRUE, s) : s \in SeqsUpTo(VendorReports, MaxVendorRecords)}

\* what a request after the first may get
LaterResponses ==
    {Failure("http_error", 429), Failure("http_error", 500), Failure("network_error", 0),
     Body(FALSE, FALSE, <<>>)}
    \cup {Body(FALSE, FALSE, <<a>>) : a \in VendorArticles}

\* from_date and to_date: the defaults, or two days of the model's calendar
FetchDates == {<<NoDate, NoDate>>, <<0, 1>>, <<2, 2>>}

KeysOf(placeholder) == {"", placeholder, "valid key"}

AdapterCallOf(fn, api_key, responses, dates) ==
    [fn |-> fn, api_key |-> api_key, responses |-> responses,
     from_date |-> dates[1], to_date |-> dates[2]]

\* fetch_coingecko_news reads no key: the key of its call is always missing
InitAdapters ==
    /\ pc = "call"
    /\ \/ \E k \in KeysOf("YOUR_GNEWS_API_KEY"), r \in NewsResponses, d \in FetchDates :
             call = AdapterCallOf("fetch_gnews", k, <<r>>, d)
       \/ \E k \in KeysOf("YOUR_WORLDNEWS_API_KEY"), r \in NewsResponses, d \in FetchDates :
             call = AdapterCallOf("fetch_worldnews", k, <<r>>, d)
       \/ \E k \in KeysOf("YOUR_CURRENTSAPI_API_KEY"), r \in NewsResponses, d \in FetchDates :
             call = AdapterCallOf("fetch_currentsapi_news", k, <<r>>, d)
       \/ \E k \in KeysOf("YOUR_FMP_API_KEY"), r \in ReportResponses, d \in FetchDates :
             call = AdapterCallOf("fetch_financial_report", k, <<r>>, d)
       \/ \E r1 \in NewsResponses, r2 \in LaterResponses, r3 \in LaterResponses,
             d \in FetchDates :
             call = AdapterCallOf("fetch_coingecko_news", "", <<r1, r2, r3>>, d)
    /\ ret = [raised |-> FALSE, value |-> <<>>]
    /\ translate_calls = <<>>
    /\ session_state = [items |-> <<>>, selected_items |-> <<>>, chat_ids |-> EmptyDict]
    /\ temp_file = Absent
    /\ chat_ids_file = Absent
    /\ requests = <<>>

\* the call returns got; its requests.get calls are logged
Returns(got) ==
    /\ ret' = [raised |-> FALSE, value |-> got]
    /\ requests' = [k \in 1..got.requests |-> [method |-> "GET", to |-> call.fn]]
    /\ pc' = "return"
    /\ UNCHANGED <<call, translate_calls, session_state, temp_file, chat_ids_file>>

FetchGnewsCall ==
    /\ pc = "call" /\ call.fn = "fetch_gnews"
    /\ Returns(FetchGnews(call.api_key, call.responses[1]))

FetchWorldnewsCall ==
    /\ pc = "call" /\ call.fn = "fetch_worldnews"
    /\ Returns(FetchWorldnews(call.api_key, call.responses[1]))

FetchCurrentsapiNewsCall ==
    /\ pc = "call" /\ call.fn = "fetch_currentsapi_news"
    /\ Returns(FetchCurrentsapiNews(call.api_key, call.responses[1]))

FetchFinancialReportCall ==
    /\ pc = "call" /\ call.fn = "fetch_financial_report"
    /\ Returns(FetchFinancialReport(call.api_key, call.responses[1],
                                    call.from_date, call.to_date))

FetchCoingeckoNewsCall ==
    /\ pc = "call" /\ call.fn = "fetch_coingecko_news"
    /\ Returns(FetchCoingeckoNews(call.responses, call.from_date, call.to_date))

SpecAdapters ==
    InitAdapters /\ [][FetchGnewsCall \/ FetchWorldnewsCall \/ FetchCurrentsapiNewsCall
                       \/ FetchFinancialReportCall \/ FetchCoingeckoNewsCall]_vars

----------------------------------------------------------------------------
(* Properties of the adapters (specification SpecAdapters) *)

AdapterNames ==
    {"fetch_gnews", "fetch_worldnews", "fetch_currentsapi_news",
     "fetch_financial_report", "fetch_coingecko_news"}

AdapterReturned == pc = "return" /\ call.fn \in AdapterNames

\* the key of a call is "", the adapter's placeholder, or a valid key
KeyMissingOrPlaceholder == call.api_key # "valid key"

ShortCircuited ==
    /\ ret.value.items = <<>>
    /\ ret.value.error = "Invalid API key"
    /\ requests = <<>>

LastResponse == call.responses[Len(requests)]

\* C15: an adapter that made a request returns ([], message) with a
\* non-empty message when the response is not 2xx, when the body reports an
\* error, and when the result set is empty; and no adapter ever returns an
\* empty list together with a None error, also when its own date filter
\* removes every record.
C15_EmptyListHasErrorMessage ==
    AdapterReturned =>
        /\ ret.value.items = <<>> => ret.value.error # NoError
        /\ (requests # <<>> /\ (LastResponse.kind # "ok" \/ LastResponse.error_field
                                \/ LastResponse.records = <<>>))
              => (ret.value.items = <<>> /\ ret.value.error # NoError)

RequestsMade == Len(requests)

\* the number of 429 answers at the head of the responses
Leading429 ==
    IF ~(call.responses[1].kind = "http_error" /\ call.responses[1].status = 429) THEN 0
    ELSE IF ~(call.responses[2].kind = "http_error" /\ call.responses[2].status = 429) THEN 1
    ELSE IF ~(call.responses[3].kind = "http_error" /\ call.responses[3].status = 429) THEN 2
    ELSE 3

\* C16: fetch_coingecko_news returns a (list, error) pair after at most 3
\* requests; it makes request k+1 only when request k was answered 429; the
\* wait before the attempts is 5, 10, 20 seconds (after a 429 that is not
\* the last it also waits the current delay before doubling it); after the
\* third 429 it returns ([], error); any other answer ends the call at once.
C16_CoingeckoRetriesOn429Only ==
    (AdapterReturned /\ call.fn = "fetch_coingecko_news") =>
        /\ ret.value.error # "no return"
        /\ RequestsMade \in 1..3
        /\ RequestsMade = Min(Leading429 + 1, 3)
        /\ ret.value.sleeps = CASE RequestsMade = 1 -> <<5>>
                                [] RequestsMade = 2 -> <<5, 5, 10>>
                                [] RequestsMade = 3 -> <<5, 5, 10, 10, 20>>
        /\ Leading429 = 3 =>
              (ret.value.items = <<>> /\ ret.value.error = "Max retries exceeded")

\* a 429, then a 500: two requests, the second one ends the call
C16_Witness ==
    /\ AdapterReturned /\ call.fn = "fetch_coingecko_news"
    /\ call.responses[1] = Failure("http_error", 429)
    /\ call.responses[2] = Failure("http_error", 500)
    /\ RequestsMade = 2
    /\ ret.value.sleeps = <<5, 5, 10>>
    /\ ret.value.error = "Failed to fetch"

----------------------------------------------------------------------------
(* send_telegram_message.  A message is the sequence of its characters.    *)

TelegramLimit == 4096
KeptChars == 4093
Ellipsis == <<".", ".", ".">>

\* what the POST to sendMessage gives:
\*   "ok"             2xx and {"ok": true}
\*   "not_ok"         2xx and {"ok": false, "description": ...}
\*   "http_error"     raise_for_status() raised
\*   "network_error"  requests.post raised
\*   "bad_json"       response.json() raised
PostOutcomes == {"ok", "not_ok", "http_error", "network_error", "bad_json"}

\* faulty variant: the cut keeps 4096 characters and then adds the dots
TextCutAtLimit(message) ==
    IF Len(message) > TelegramLimit
    THEN SubSeq(message, 1, TelegramLimit) \o Ellipsis
    ELSE message

\* if len(message) > 4096: message = message[:4093] + "..."
TextOf(message) ==
    IF Len(message) > TelegramLimit
    THEN SubSeq(message, 1, KeptChars) \o Ellipsis
    ELSE message

\* the request of one call and the success flag it returns
SendTelegramMessage(chat_id, message, outcome) ==
    [success |-> outcome = "ok",
     request |-> [method |-> "POST", to |-> "sendMessage", chat_id |-> chat_id,
                  text |-> TextOf(message)]]

\* a message of n characters; the characters differ along the message
MessageOfLen(n) ==
    [i \in 1..n |-> CASE i % 3 = 0 -> "a" [] i % 3 = 1 -> "b" [] OTHER -> "c"]

MessageLengths ==
    {0, 1, 100, 4092, 4093, 4094, 4095, 4096, 4097, 4098, 4099, 4100, 5000, 8192}

InitSendMessage ==
    /\ pc = "call"
    /\ \E n \in MessageLengths, outcome \in PostOutcomes, chat_id \in {"5013104607", "-100200"} :
          call = [fn |-> "send_telegram_message", chat_id |-> chat_id,
                  message |-> MessageOfLen(n), outcome |-> outcome]
    /\ ret = [raised |-> FALSE, value |-> <<>>]
    /\ translate_calls = <<>>
    /\ session_state = [items |-> <<>>, selected_items |-> <<>>, chat_ids |-> EmptyDict]
    /\ temp_file = Absent
    /\ chat_ids_file = Absent
    /\ requests = <<>>

SendTelegramMessageCall ==
    /\ pc = "call" /\ call.fn = "send_telegram_message"
    /\ LET got == SendTelegramMessage(call.chat_id, call.message, call.outcome)
       IN /\ ret' = [raised |-> FALSE, value |-> <<got.success>>]
          /\ requests' = <<got.request>>
    /\ pc' = "return"
    /\ UNCHANGED <<call, translate_calls, session_state, temp_file, chat_ids_file>>

SpecSendMessage == InitSendMessage /\ [][SendTelegramMessageCall]_vars

----------------------------------------------------------------------------
(* Properties of send_telegram_message (specification SpecSendMessage) *)

\* C19: the text posted never has more than 4096 characters; a message of
\* at most 4096 characters is posted unchanged; a longer one is posted as
\* its first 4093 characters followed by "...", 4096 characters in all.
C19_PostedTextAtMost4096 ==
    (pc = "return" /\ call.fn = "send_telegram_message") =>
        /\ Len(requests) = 1
        /\ Len(requests[1].text) <= 4096
        /\ Len(call.message) <= 4096 => requests[1].text = call.message
        /\ Len(call.message) > 4096 =>
              /\ Len(requests[1].text) = 4096
              /\ \A i \in 1..4093 : requests[1].text[i] = call.message[i]
              /\ \A i \in 4094..4096 : requests[1].text[i] = "."

\* a message of 4097 characters was posted
C19_Witness ==
    /\ pc = "return" /\ call.fn = "send_telegram_message"
    /\ Len(call.message) = 4097
    /\ Len(requests[1].text) = 4096
    /\ requests[1].text[4093] = call.message[4093]
    /\ requests[1].text[4094] = "."

----------------------------------------------------------------------------
(* get_chat_id_from_username, save_chat_ids.  A name is the sequence of    *)
(* its characters; chat_ids maps names to chat ids.                        *)

MaxUpdates == 2      \* most updates in one getUpdates answer

\* chat_id is None
NoChatId == 0

At == "@"

\* str.lower() on the characters of the model
LowerChar(c) == CASE c = "A" -> "a" [] c = "B" -> "b" [] OTHER -> c
Lower(name) == [i \in 1..Len(name) |-> LowerChar(name[i])]

\* str.find(sub) != -1
Find(text, sub) ==
    \E i \in 1..(Len(text) - Len(sub) + 1) : SubSeq(text, i, i + Len(sub) - 1) = sub

\* chat_ids[username] = chat_id
SetItem(chat_ids, username, chat_id) ==
    [k \in (DOMAIN chat_ids) \cup {username} |->
        IF k = username THEN chat_id ELSE chat_ids[k]]

\* save_chat_ids(chat_ids): the file after the call
SaveChatIds(file, chat_ids, outcome) ==
    CASE outcome = "ok" -> [state |-> "written", text |-> chat_ids]
      [] outcome = "open_fails" -> file
      [] outcome = "fails_midway" -> [state |-> "truncated", text |-> <<>>]

\* for update in data.get("result", []): the id of the first chat whose
\* username, or whose group title, matches; NoChatId when the loop ends
RECURSIVE UpdatesLoop(_, _)
UpdatesLoop(result, username) ==
    IF result = <<>> THEN NoChatId
    ELSE LET update == Head(result) IN
         IF ~update.has_chat THEN UpdatesLoop(Tail(result), username)
         ELSE IF Lower(update.chat.username) = username THEN update.chat.id
         ELSE IF update.chat.type \in {"group", "supergroup"}
                 /\ Find(Lower(update.chat.title), Lower(username))
              THEN update.chat.id
         ELSE UpdatesLoop(Tail(result), username)

\* faulty variant: the cache is looked up under the name as it was typed
GetChatIdCaseSensitiveCache(username, chat_ids, file, response, save_outcome) ==
    IF username = <<>> \/ Head(username) # At
    THEN [chat_id |-> NoChatId, error |-> "must start with @", chat_ids |-> chat_ids,
          file |-> file, requests |-> 0]
    ELSE LET name == Lower(Tail(username)) IN
         IF Tail(username) \in DOMAIN chat_ids
         THEN [chat_id |-> chat_ids[name], error |-> NoError, chat_ids |-> chat_ids,
               file |-> file, requests |-> 0]
         ELSE IF response.kind # "ok" \/ ~response.ok
              THEN [chat_id |-> NoChatId, error |-> "Failed to fetch Chat ID",
                    chat_ids |-> chat_ids, file |-> file, requests |-> 1]
         ELSE LET chat_id == UpdatesLoop(response.result, name) IN
              IF chat_id = NoChatId
              THEN [chat_id |-> NoChatId, error |-> "Chat ID not found",
                    chat_ids |-> chat_ids, file |-> file, requests |-> 1]
              ELSE [chat_id |-> chat_id, error |-> NoError,
                    chat_ids |-> SetItem(chat_ids, name, chat_id),
                    file |-> SaveChatIds(file, SetItem(chat_ids, name, chat_id),
                                         save_outcome),
                    requests |-> 1]

\* the returned pair, the map and the file after the call, and the number
\* of getUpdates requests
GetChatIdFromUsername(username, chat_ids, file, response, save_outcome) ==
    IF username = <<>> \/ Head(username) # At
    THEN [chat_id |-> NoChatId, error |-> "must start with @", chat_ids |-> chat_ids,
          file |-> file, requests |-> 0]
    ELSE LET name == Lower(Tail(username)) IN
         IF name \in DOMAIN chat_ids
         THEN [chat_id |-> chat_ids[name], error |-> NoError, chat_ids |-> chat_ids,
               file |-> file, requests |-> 0]
         ELSE IF response.kind \in {"http_error", "network_error"}
              THEN [chat_id |-> NoChatId, error |-> "Failed to fetch Chat ID",
                    chat_ids |-> chat_ids, file |-> file, requests |-> 1]
         ELSE IF response.kind = "bad_json"
              THEN [chat_id |-> NoChatId, error |-> "Unexpected error",
                    chat_ids |-> chat_ids, file |-> file, requests |-> 1]
         ELSE IF ~response.ok
              THEN [chat_id |-> NoChatId, error |-> "Failed to fetch updates",
                    chat_ids |-> chat_ids, file |-> file, requests |-> 1]
         ELSE LET chat_id == UpdatesLoop(response.result, name) IN
              IF chat_id = NoChatId
              THEN [chat_id |-> NoChatId, error |-> "Chat ID not found",
                    chat_ids |-> chat_ids, file |-> file, requests |-> 1]
              ELSE [chat_id |-> chat_id, error |-> NoError,
                    chat_ids |-> SetItem(chat_ids, name, chat_id),
                    file |-> SaveChatIds(file, SetItem(chat_ids, name, chat_id),
                                         save_outcome),
                    requests |-> 1]

----------------------------------------------------------------------------
(* Inputs of get_chat_id_from_username *)

\* what the user types into "Send to User/Group"
Usernames ==
    {<<At, "a">>, <<At, "A">>, <<At, "b">>, <<"a">>, <<At, At, "a">>, <<At, "c">>}

Chat(username, id, type, title) ==
    [has_chat |-> TRUE,
     chat |-> [username |-> username, id |-> id, type |-> type, title |-> title]]

\* updates of the bot: two private chats, two groups, one update without a message
Updates ==
    { Chat(<<"A">>, 101, "private", <<>>),
      Chat(<<"b">>, 102, "private", <<>>),
      Chat(<<"g">>, -201, "group", <<"x", "B">>),
      Chat(<<"h">>, -202, "supergroup", <<At, "a">>),
      [has_chat |-> FALSE,
       chat |-> [username |-> <<>>, id |-> 0, type |-> "", title |-> <<>>]] }

UpdatesResponse(kind, ok, result) == [kind |-> kind, ok |-> ok, result |-> result]

GetUpdatesResponses ==
    {UpdatesResponse(k, FALSE, <<>>) : k \in {"http_error", "network_error", "bad_json", "ok"}}
    \cup {UpdatesResponse("ok", TRUE, s) : s \in SeqsUpTo(Updates, MaxUpdates)}

InitChatIds ==
    /\ pc = "main"
    /\ call = [fn |-> "get_chat_id_from_username", username |-> <<>>]
    /\ ret = [raised |-> FALSE, value |-> <<NoChatId>>]
    /\ translate_calls = <<>>
    /\ session_state = [items |-> <<>>, selected_items |-> <<>>, chat_ids |-> EmptyDict]
    /\ temp_file = Absent
    /\ chat_ids_file = Absent
    /\ requests = <<>>

GetChatIdCall ==
    /\ pc = "main"
    /\ \E username \in Usernames, response \in GetUpdatesResponses,
          save_outcome \in {"ok", "open_fails"} :
          LET got == GetChatIdFromUsername(username, session_state.chat_ids,
                                           chat_ids_file, response, save_outcome)
          IN /\ call' = [fn |-> "get_chat_id_from_username", username |-> username]
             /\ ret' = [raised |-> FALSE, value |-> <<got.chat_id>>]
             /\ session_state' = [session_state EXCEPT !.chat_ids = got.chat_ids]
             /\ chat_ids_file' = got.file
             /\ requests' = [k \in 1..got.requests |-> [method |-> "GET", to |-> "getUpdates"]]
    /\ UNCHANGED <<pc, translate_calls, temp_file>>

SpecChatIds == InitChatIds /\ [][GetChatIdCall]_vars

----------------------------------------------------------------------------
(* Properties of the chat-id map (specification SpecChatIds) *)

NormalisedKey(name) ==
    /\ Lower(name) = name
    /\ (name = <<>> \/ Head(name) # "@")

KeepsEntries(before, after) ==
    \A k \in DOMAIN before : k \in DOMAIN after /\ after[k] = before[k]

\* C20: after any sequence of get_chat_id_from_username calls every key of
\* the map is lowercase and has no leading @; a call never removes an entry
\* nor changes its chat id; and a call that returns no chat id leaves the
\* map and the chat-id file as they were.
C20_ChatIdMapAppendOnlyNormalised ==
    [][ /\ \A k \in DOMAIN session_state'.chat_ids : NormalisedKey(k)
        /\ KeepsEntries(session_state.chat_ids, session_state'.chat_ids)
        /\ ret'.value = <<NoChatId>> =>
              (session_state'.chat_ids = session_state.chat_ids
               /\ chat_ids_file' = chat_ids_file) ]_vars

\* the key of the cache for what the user typed
CacheKey(username) == Lower(Tail(username))

\* a call that starts with @ answers from the cache when the key is in it,
\* without a request, and never drops or changes an entry
AnswersFromCache ==
    LET username == call'.username
        chat_ids == session_state.chat_ids
    IN (username # <<>> /\ Head(username) = At) =>
          /\ KeepsEntries(chat_ids, session_state'.chat_ids)
          /\ CacheKey(username) \in DOMAIN chat_ids =>
                (ret'.value = <<chat_ids[CacheKey(username)]>> /\ requests' = <<>>)

\* the call resolved the name through getUpdates
ResolvedByGetUpdates == requests' # <<>> /\ ret'.value # <<NoChatId>>

HitInMap ==
    /\ CacheKey(call'.username) \in DOMAIN session_state'.chat_ids
    /\ session_state'.chat_ids[CacheKey(call'.username)] = ret'.value[1]

HitInFile ==
    /\ chat_ids_file'.state = "written"
    /\ CacheKey(call'.username) \in DOMAIN chat_ids_file'.text
    /\ chat_ids_file'.text[CacheKey(call'.username)] = ret'.value[1]

----------------------------------------------------------------------------
(* "Send Selected Items to Telegram".  A target is what the handler passes *)
(* to send_telegram_message as chat_id: the text of a field or a resolved  *)
(* chat id.                                                                 *)

TargetText(name) == [kind |-> "text", name |-> name, id |-> NoChatId]
TargetId(id) == [kind |-> "id", name |-> <<>>, id |-> id]

\* the "Telegram Chat ID" field: a numeric chat id
DefaultChatId == <<"5", "0", "1", "3">>

\* the message built for a news item: title, description, Tehran time (the
\* text of published_at when it does not parse), url; descriptions here are
\* shorter than the 100 characters truncate_text keeps
MessageFor(item) ==
    LET tehran_time == ParseToTehranTime(item.published_at)
    IN <<"*", IF item.translated_title # NoText THEN item.translated_title ELSE item.title,
         "*", IF item.translated_description # NoText THEN item.translated_description
              ELSE item.description,
         IF tehran_time.some THEN "tehran time" ELSE item.published_at.text,
         item.url>>

\* final_title / final_description of the loop: translated again when the
\* item holds no translation other than the original text
Retranslated(item, avalai_api_key) ==
    LET final_title == IF item.translated_title # NoText THEN item.translated_title
                       ELSE item.title
        final_description == IF item.translated_description # NoText
                             THEN item.translated_description ELSE item.description
    IN [item EXCEPT
          !.translated_title =
              IF final_title = NoText \/ final_title = item.title
              THEN TranslateWithAvalai(item.title, avalai_api_key, "ok").text
              ELSE item.translated_title,
          !.translated_description =
              IF final_description = NoText \/ final_description = item.description
              THEN TranslateWithAvalai(item.description, avalai_api_key, "ok").text
              ELSE item.translated_description]

SendResult(success_count, fail_count, posts, items) ==
    [success_count |-> success_count, fail_count |-> fail_count, posts |-> posts,
     items |-> items]

\* faulty variant: the first failed send ends the loop
RECURSIVE SendLoopStopsAtFailure(_, _, _, _, _, _, _, _)
SendLoopStopsAtFailure(selected_items, i, target_chat_id, avalai_api_key, outcomes, success_count, fail_count, posts) ==
    IF i > Len(selected_items)
    THEN SendResult(success_count, fail_count, posts, selected_items)
    ELSE LET item == Retranslated(selected_items[i], avalai_api_key)
             sent == SendTelegramMessage(target_chat_id, MessageFor(item), outcomes[i])
             items == [selected_items EXCEPT ![i] = item]
         IN IF sent.success
            THEN SendLoopStopsAtFailure(items, i + 1, target_chat_id, avalai_api_key,
                     outcomes, success_count + 1, fail_count, Append(posts, sent.request))
            ELSE SendResult(success_count, fail_count + 1, Append(posts, sent.request),
                            items)

\* for item in st.session_state.selected_items: ...
RECURSIVE SendLoop(_, _, _, _, _, _, _, _)
SendLoop(selected_items, i, target_chat_id, avalai_api_key, outcomes, success_count, fail_count, posts) ==
    IF i > Len(selected_items)
    THEN SendResult(success_count, fail_count, posts, selected_items)
    ELSE LET item == Retranslated(selected_items[i], avalai_api_key)
             sent == SendTelegramMessage(target_chat_id, MessageFor(item), outcomes[i])
             items == [selected_items EXCEPT ![i] = item]
         IN IF sent.success
            THEN SendLoop(items, i + 1, target_chat_id, avalai_api_key, outcomes,
                          success_count + 1, fail_count, Append(posts, sent.request))
            ELSE SendLoop(items, i + 1, target_chat_id, avalai_api_key, outcomes,
                          success_count, fail_count + 1, Append(posts, sent.request))

\* the handler of the button: resolution of an @name, then the loop
SendHandler(state, file, user_or_group, response, save_outcome, avalai_api_key, outcomes) ==
    LET target == IF user_or_group # <<>> THEN user_or_group ELSE DefaultChatId
        at == Head(target) = At
        got == GetChatIdFromUsername(target, state.chat_ids, file, response, save_outcome)
        failed == at /\ got.chat_id = NoChatId
        fail_count == IF failed THEN Len(state.selected_items) ELSE 0
        target_chat_id == IF at /\ ~failed THEN TargetId(got.chat_id) ELSE TargetText(target)
        loop == SendLoop(state.selected_items, 1, target_chat_id, avalai_api_key,
                         outcomes, 0, fail_count, <<>>)
    IN [success_count |-> loop.success_count, fail_count |-> loop.fail_count,
        posts |-> loop.posts,
        resolution |-> IF ~at THEN "not needed" ELSE IF failed THEN "failed" ELSE "resolved",
        target_chat_id |-> target_chat_id,
        gets |-> IF at THEN got.requests ELSE 0,
        state |-> [items |-> state.items, selected_items |-> loop.items,
                   chat_ids |-> IF at THEN got.chat_ids ELSE state.chat_ids],
        file |-> IF at THEN got.file ELSE file]

----------------------------------------------------------------------------
(* Inputs of the Send handler *)

\* an article as pre_process_articles leaves it when nothing was translated
Untouched(item) ==
    [item EXCEPT !.translated_title = item.title,
                 !.translated_description = item.description]

SelectableItems ==
    { Untouched(NewsItem("u1", "T1", "D1", PublishedAtSamples[1])),
      Untouched(NewsItem("u2", "T2", "D2", PublishedAtSamples[4])),
      [NewsItem("u3", "T1", "D2", PublishedAtSamples[2]) EXCEPT
          !.translated_title = Fa("T1"), !.translated_description = Fa("D2")] }

Selections ==
    {s \in NonEmptySeqsUpTo(SelectableItems, MaxItems) :
        \A i, j \in 1..Len(s) : s[i].url = s[j].url => i = j}

SendOutcomes == {"ok", "not_ok", "network_error"}

\* the "Send to User/Group" field: blank, names with @, a name without @
SendTargets == {<<>>, <<At, "a">>, <<At, "A">>, <<At, "c">>, <<"a">>}

SendUpdates ==
    {UpdatesResponse("network_error", FALSE, <<>>),
     UpdatesResponse("ok", FALSE, <<>>),
     UpdatesResponse("ok", TRUE, <<>>),
     UpdatesResponse("ok", TRUE, <<Chat(<<"A">>, 101, "private", <<>>)>>)}

KnownChatIds == {EmptyDict, SetItem(EmptyDict, <<"c">>, 103)}

InitSend ==
    /\ pc = "main"
    /\ \E user_or_group \in SendTargets, response \in SendUpdates,
          avalai_api_key \in {PlaceholderKey, "valid key"},
          save_outcome \in {"ok", "open_fails"} :
       \E selected_items \in Selections :
       \E outcomes \in [1..Len(selected_items) -> SendOutcomes] :
       \E chat_ids \in KnownChatIds :
          /\ call = [fn |-> "main", event |-> "send", user_or_group |-> user_or_group,
                     response |-> response, avalai_api_key |-> avalai_api_key,
                     save_outcome |-> save_outcome, outcomes |-> outcomes, selected_items |-> selected_items]
          /\ session_state = [items |-> <<>>, selected_items |-> selected_items,
                              chat_ids |-> chat_ids]
          /\ chat_ids_file = IF chat_ids = EmptyDict THEN Absent
                             ELSE [state |-> "written", text |-> chat_ids]
    /\ ret = [raised |-> FALSE, value |-> <<>>]
    /\ translate_calls = <<>>
    /\ temp_file = Absent
    /\ requests = <<>>

Send ==
    /\ pc = "main" /\ call.event = "send"
    /\ LET got == SendHandler(session_state, chat_ids_file, call.user_or_group,
                              call.response, call.save_outcome, call.avalai_api_key,
                              call.outcomes)
       IN /\ ret' = [raised |-> FALSE,
                     value |-> [success_count |-> got.success_count,
                                fail_count |-> got.fail_count,
                                resolution |-> got.resolution,
                                target_chat_id |-> got.target_chat_id]]
          /\ requests' = [k \in 1..got.gets |-> [method |-> "GET", to |-> "getUpdates",
                                                  chat_id |-> TargetId(NoChatId),
                                                  text |-> <<>>]]
                         \o got.posts
          /\ session_state' = got.state
          /\ chat_ids_file' = got.file
    /\ pc' = "sent"
    /\ UNCHANGED <<call, translate_calls, temp_file>>

SpecSend == InitSend /\ [][Send]_vars

----------------------------------------------------------------------------
(* Properties of the Send handler (specification SpecSend) *)

Sent == pc = "sent"

\* the sendMessage requests of the run, in order
Posts ==
    LET RECURSIVE From(_)
        From(k) == IF k > Len(requests) THEN <<>>
                   ELSE IF requests[k].to = "sendMessage"
                        THEN <<requests[k]>> \o From(k + 1)
                        ELSE From(k + 1)
    IN From(1)

OkCount == Cardinality({i \in DOMAIN call.outcomes : call.outcomes[i] = "ok"})

C18_UnresolvedTargetSendsNothing ==
    (Sent /\ ret.value.resolution = "failed") =>
        /\ Posts = <<>>
        /\ ret.value.success_count = 0
        /\ ret.value.fail_count = Len(call.selected_items)

----------------------------------------------------------------------------
(* The start of a session: lines 1059-1071 of main(), with the two cache   *)
(* files as an earlier process left them.                                   *)

\* the session state after the initialisation of main()
SessionInit(file, chat_file, items_outcome, chat_ids_outcome) ==
    [items |-> LoadArticlesFromFile(file, items_outcome),
     selected_items |-> <<>>,
     chat_ids |-> LoadChatIds(chat_file, chat_ids_outcome)]

\* a file cut short by a failed write
Truncated == [state |-> "truncated", text |-> <<>>]

\* files that exist and are not JSON: cut short, a string that does not
\* end, an escape JSON does not have
CorruptFiles ==
    {Truncated,
     [state |-> "written",
      text |-> <<[type |-> <<Quote, "n", Quote>>, title |-> <<Quote, "a">>]>>],
     [state |-> "written",
      text |-> <<[type |-> <<Quote, "n", Quote>>, title |-> <<Quote, "a", Quote>>],
                 [type |-> <<Quote, "n", Quote>>,
                  title |-> <<Quote, Backslash, "a", Quote>>]>>]}

\* files a search left
GoodFiles ==
    {OldFile,
     [state |-> "written", text |-> <<>>],
     [state |-> "written",
      text |-> JsonDump(<<[type |-> Str(<<"r">>), revenue |-> IntOf(<<"5">>),
                           eps |-> PyNone]>>)]}

StartFiles == {Absent} \cup CorruptFiles \cup GoodFiles

StartChatFiles ==
    {Absent, Truncated,
     [state |-> "written", text |-> EmptyDict],
     [state |-> "written", text |-> SetItem(EmptyDict, <<"a">>, 101)]}

InitStart ==
    /\ pc = "start"
    /\ \E items_outcome \in {"ok", "open_fails"}, chat_ids_outcome \in {"ok", "open_fails"} :
          call = [fn |-> "main", event |-> "open", items_outcome |-> items_outcome,
                  chat_ids_outcome |-> chat_ids_outcome]
    /\ ret = [raised |-> FALSE, value |-> <<>>]
    /\ translate_calls = <<>>
    /\ session_state = [items |-> <<>>, selected_items |-> <<>>, chat_ids |-> EmptyDict]
    /\ temp_file \in StartFiles
    /\ chat_ids_file \in StartChatFiles
    /\ requests = <<>>

\* the first run of main() in a new session
Start ==
    /\ pc = "start"
    /\ session_state' = SessionInit(temp_file, chat_ids_file, call.items_outcome,
                                    call.chat_ids_outcome)
    /\ ret' = [raised |-> FALSE,
               value |-> <<LoadArticlesFromFile(temp_file, call.items_outcome)>>]
    /\ pc' = "main"
    /\ UNCHANGED <<call, translate_calls, temp_file, chat_ids_file, requests>>

SpecStart == InitStart /\ [][Start]_vars

----------------------------------------------------------------------------
(* Properties of the start of a session (specification SpecStart) *)

\* C22: when the item cache file does not exist or is not JSON,
\* load_articles_from_file returns [] and the session starts with an empty
\* item list; when the chat-id file does not exist or is not JSON,
\* load_chat_ids returns {}; neither call raises.
C22_MissingOrCorruptFileGivesEmpty ==
    pc = "main" =>
        /\ ~ret.raised
        /\ temp_file \in {Absent} \cup CorruptFiles =>
              (ret.value = <<<<>>>> /\ session_state.items = <<>>)
        /\ chat_ids_file \in {Absent, Truncated} => session_state.chat_ids = EmptyDict

\* a session started on an item file whose second article has an escape
\* that is not JSON, and a chat-id file cut short: both collections empty
C22_Witness ==
    /\ pc = "main"
    /\ call.items_outcome = "ok" /\ call.chat_ids_outcome = "ok"
    /\ temp_file.state = "written" /\ Len(temp_file.text) = 2
    /\ temp_file \in CorruptFiles
    /\ chat_ids_file = Truncated
    /\ session_state.items = <<>>
    /\ session_state.chat_ids = EmptyDict

----------------------------------------------------------------------------
(* Properties of the session and its item cache file (specification        *)
(* SpecSession)                                                             *)

C24_ClearDiscardsEverything ==
    [][ /\ call'.event = "clear" =>
              /\ session_state'.items = <<>>
              /\ session_state'.selected_items = <<>>
              /\ temp_file' = Absent
        /\ (temp_file = Absent /\ call'.event # "search") => temp_file' = Absent
        /\ (temp_file = Absent /\ call'.event = "open") =>
              session_state'.items = <<>> ]_vars

\* the run in which Clear was pressed has ended: nothing is stored, no
\* file, no items, no selection
C24_Witness ==
    /\ call.event = "clear"
    /\ ret.value = <<>>
    /\ temp_file = Absent
    /\ session_state.items = <<>>
    /\ session_state.selected_items = <<>>

\* C25: a Search whose fetch fails or returns no items leaves the item
\* list, the selection and the item cache file as they were before it.
C25_FailedSearchKeepsState ==
    [][ (call'.event = "search" /\ ~call'.fetched) =>
            /\ session_state'.items = session_state.items
            /\ session_state'.selected_items = session_state.selected_items
            /\ temp_file' = temp_file ]_vars

\* the item passes the time filter of the search on its own
InWindow(item, settings) ==
    LET body == FilterBody(<<item>>, settings.time_range_hours, settings.start_date,
                           settings.end_date, UtcNow)
    IN ~body.exc /\ body.value = <<item>>

\* C27: after a Search on a news API with the time filter enabled, every
\* item of the session's item list, and of the cache file, is inside the
\* requested window.
C27_StoredItemsInsideWindow ==
    (call.event = "search" /\ call.selected_api # ReportApi
        /\ ~call.settings.disable_filter) =>
        /\ \A i \in 1..Len(session_state.items) :
              InWindow(session_state.items[i], call.settings)
        /\ call.fetched =>
              \A i \in 1..Len(temp_file.text) : InWindow(temp_file.text[i], call.settings)

\* C28: every entry of the selection has the url of an item of the
\* session's item list.
C28_SelectionWithinItemList ==
    \A k \in 1..Len(session_state.selected_items) :
        \E i \in 1..Len(session_state.items) :
            session_state.items[i].url = session_state.selected_items[k].url

C30_FileAgreesWithItemList ==
    call.event \in {"search", "clear"} =>
        IF session_state.items # <<>>
        THEN temp_file = [state |-> "written", text |-> session_state.items]
        ELSE temp_file.state = "absent" \/ temp_file.text = <<>>

----------------------------------------------------------------------------
(* Two sessions on one host.  Each has its own st.session_state and both   *)
(* use the same two files.  save_chat_ids and save_articles_to_file take   *)
(* no lock: open(..., "w") empties the file, and json.dump with the close  *)
(* of the file writes the text at the start of whatever the file holds by  *)
(* then, so the steps of two saves can interleave.  Here a file is the     *)
(* sequence of the tokens of its text; in the runs of the two sessions     *)
(* ret names the session whose write to each file came last.               *)

MaxSaves == 2        \* most saves of one session to one file

Sessions == {1, 2}

Punct(c) == [c |-> c, key |-> <<>>, value |-> 0]
Entry(key, value) == [c |-> "entry", key |-> key, value |-> value]

\* entries separated by ", "
RECURSIVE Joined(_)
Joined(entries) ==
    IF entries = <<>> THEN <<>>
    ELSE IF Len(entries) = 1 THEN entries
    ELSE <<Head(entries), Punct(",")>> \o Joined(Tail(entries))

\* the names a session can resolve, in the order it resolves them, and
\* their chat ids
RaceNames == <<<<"a">>, <<"b">>, <<"c">>>>
RaceChatId(name) == CASE name = <<"a">> -> 101 [] name = <<"b">> -> 102 [] OTHER -> 103

\* json.dump(chat_ids, f): the text of the map
ChatIdsText(chat_ids) ==
    LET IsKey(name) == name \in DOMAIN chat_ids
        keys == SelectSeq(RaceNames, IsKey)
    IN <<Punct("{")>> \o Joined([i \in 1..Len(keys) |-> Entry(keys[i], chat_ids[keys[i]])])
       \o <<Punct("}")>>

\* json.dump(articles, f): the text of the list, one entry per item
ArticlesText(articles) ==
    <<Punct("[")>> \o Joined([i \in 1..Len(articles) |-> Entry(<<articles[i].url>>, 0)])
    \o <<Punct("]")>>

\* open(path, "w"): the file exists and is empty
Opened == [state |-> "written", text |-> <<>>]

\* the write of a text through a file object opened before: it lands at
\* offset 0 and leaves what lies behind its end
WriteAtStart(file, text) ==
    [state |-> "written", text |-> text \o SubSeq(file.text, Len(text) + 1, Len(file.text))]

\* the item lists a search of a session can give
RaceLists ==
    {<<NewsItem("u1", "T1", "D1", PublishedAtSamples[1])>>,
     <<NewsItem("u2", "T2", "D2", PublishedAtSamples[4]),
       NewsItem("u3", "T1", "D2", PublishedAtSamples[2])>>}

InitRace ==
    /\ pc = [s \in Sessions |-> "main"]
    /\ call = [s \in Sessions |-> [save_chat_ids |-> 0, save_articles_to_file |-> 0]]
    /\ ret = [chat_ids_file |-> 0, temp_file |-> 0]
    /\ translate_calls = <<>>
    /\ session_state = [s \in Sessions |->
                           [items |-> <<>>, selected_items |-> <<>>, chat_ids |-> EmptyDict]]
    /\ temp_file = Absent
    /\ chat_ids_file = Absent
    /\ requests = <<>>

\* get_chat_id_from_username resolves a name (line 1027) and save_chat_ids
\* opens the file
OpenChatIdsFile ==
    \E s \in Sessions : \E i \in 1..Len(RaceNames) :
        /\ pc[s] = "main"
        /\ call[s].save_chat_ids < MaxSaves
        /\ RaceNames[i] \notin DOMAIN session_state[s].chat_ids
        /\ session_state' =
              [session_state EXCEPT ![s].chat_ids =
                  SetItem(session_state[s].chat_ids, RaceNames[i], RaceChatId(RaceNames[i]))]
        /\ chat_ids_file' = Opened
        /\ pc' = [pc EXCEPT ![s] = "save_chat_ids"]
        /\ UNCHANGED <<call, ret, translate_calls, temp_file, requests>>

\* json.dump and the end of the with block of save_chat_ids
DumpChatIds ==
    \E s \in Sessions :
        /\ pc[s] = "save_chat_ids"
        /\ chat_ids_file' = WriteAtStart(chat_ids_file, ChatIdsText(session_state[s].chat_ids))
        /\ ret' = [ret EXCEPT !.chat_ids_file = s]
        /\ call' = [call EXCEPT ![s].save_chat_ids = @ + 1]
        /\ pc' = [pc EXCEPT ![s] = "main"]
        /\ UNCHANGED <<translate_calls, session_state, temp_file, requests>>

\* a search with items (lines 1181-1183) up to the open of save_articles_to_file
OpenTempFile ==
    \E s \in Sessions : \E items \in RaceLists :
        /\ pc[s] = "main"
        /\ call[s].save_articles_to_file < MaxSaves
        /\ session_state' = [session_state EXCEPT ![s].items = items]
        /\ temp_file' = Opened
        /\ pc' = [pc EXCEPT ![s] = "save_articles_to_file"]
        /\ UNCHANGED <<call, ret, translate_calls, chat_ids_file, requests>>

\* json.dump and the end of the with block of save_articles_to_file, then
\* the selection is emptied
DumpArticles ==
    \E s \in Sessions :
        /\ pc[s] = "save_articles_to_file"
        /\ temp_file' = WriteAtStart(temp_file, ArticlesText(session_state[s].items))
        /\ session_state' = [session_state EXCEPT ![s].selected_items = <<>>]
        /\ ret' = [ret EXCEPT !.temp_file = s]
        /\ call' = [call EXCEPT ![s].save_articles_to_file = @ + 1]
        /\ pc' = [pc EXCEPT ![s] = "main"]
        /\ UNCHANGED <<translate_calls, chat_ids_file, requests>>

SpecRace ==
    InitRace /\ [][OpenChatIdsFile \/ DumpChatIds \/ OpenTempFile \/ DumpArticles]_vars

----------------------------------------------------------------------------
(* Properties of two sessions (specification SpecRace) *)

\* C26: when both sessions have written a file and neither is inside a
\* save of it, the file holds exactly the text of the data of the session
\* that wrote last.
C26_LastWriterWins ==
    /\ ((\A s \in Sessions : call[s].save_chat_ids > 0 /\ pc[s] # "save_chat_ids") =>
           chat_ids_file.text = ChatIdsText(session_state[ret.chat_ids_file].chat_ids))
    /\ ((\A s \in Sessions : call[s].save_articles_to_file > 0
                             /\ pc[s] # "save_articles_to_file") =>
           temp_file.text = ArticlesText(session_state[ret.temp_file].items))

====
